---------------------------- MODULE Spec2Model ----------------------------
(***************************************************************************)
(* State-machine model of the Open Protocol nutrunner client               *)
(* (src/index.js, class OpenProtocolNutrunner).                            *)
(*                                                                         *)
(* The variables are the fields of the client object and of this.state.    *)
(* One action models one handler run to completion on the single-threaded  *)
(* event loop: a socket callback, a timer callback or an operator call.    *)
(* Inbound frames are modelled after framing, by the payload fields the    *)
(* parsers read.  Timestamps (cycleStartTs, lastTrafficTs), identifiers    *)
(* that are only copied (jobId, batchId, paramSetId, errorCode) and        *)
(* connection.lastMID are not modelled.  A timer is modelled by a flag and   *)
(* an expiry action that may fire whenever the timer is armed: a timer that *)
(* is due runs before the 'close' event of a socket destroyed in the same   *)
(* turn.  Every command waits COMMAND_TIMEOUT_MS, so the command timers     *)
(* expire in the order the commands were sent.  The heartbeat               *)
(* specification counts the milliseconds (idle, silent, elapsed, beat): in  *)
(* it time passes up to the next expiry of a command timer or of the        *)
(* heartbeat interval, whose callback then runs before more time passes;    *)
(* two timers that expire in the same millisecond run in either order.      *)
(* The other specifications do not count time, and the expiry of timers of  *)
(* different durations (command, watchdog, reconnect) is not ordered in     *)
(* them.  A socket's                                                        *)
(* 'error' and 'close' events are two handlers, with the catch handler of   *)
(* _scheduleReconnect between them when the first rejected its promise.     *)
(* errorListener tells whether the application listens to 'error': without  *)
(* a listener emit('error') throws.  The specifications that have no        *)
(* action for the reconnect timer create the client with autoReconnect      *)
(* false, so that no such timer is armed in them.                           *)
(*                                                                         *)
(* emitted, written and thrown hold what the last handler emitted to the   *)
(* listeners, handed to socket.write and threw to its caller; last names   *)
(* that handler and its input.  cycleCompleted and cycleIncomplete are     *)
(* history variables counting completion events since the last             *)
(* tighteningCycleStarted; stopped tells that disconnect() was called and  *)
(* connect() has not been called since.                                    *)
(*                                                                         *)
(* socket is the state of the socket this.socket refers to ("null" before  *)
(* the first connect(); "closed" once its 'close' event was delivered) and *)
(* socketBy tells whose connect() waits for it: the user's, or the         *)
(* reconnect timer's, whose promise carries the catch handler of           *)
(* _scheduleReconnect; it is "none" once the socket has connected or       *)
(* failed, when reject(e) can no longer act on the promise.  others holds  *)
(* in the same way the sockets of earlier connect() calls that this.socket *)
(* no longer refers to but whose listeners are still attached.  rejected   *)
(* tells that the promise of a timer's connect()                            *)
(* was rejected and its catch handler has not run yet.  buffer is the      *)
(* decode buffer, holding the bytes of an incomplete frame.                *)
(*                                                                         *)
(* idle is Date.now() - lastTrafficTs in milliseconds, silent the time      *)
(* since a frame was last handed to socket.write or data last arrived, and  *)
(* elapsed[id] the time since command id was sent, and beat the time since  *)
(* the heartbeat interval was started or its callback last ran, all         *)
(* advanced by the action that lets time pass.  wire is the byte stream the peer has    *)
(* written to the connection and fed the number of its bytes the socket has *)
(* delivered to _onData; decoded holds the frames the decoding loop has cut *)
(* out of that stream and frameErrors counts the frameError events it has   *)
(* emitted.  The handlers of the MIDs _handleMID has a case for are         *)
(* modelled by one action each, applied to a frame that arrives whole;      *)
(* the handler of MID 0011 changes no modelled field.                       *)
(*                                                                         *)
(* For MID 0004 and MID 0005 last.n is the MID the frame refers to and     *)
(* last.m the batch counter before the handler                             *)
(* ran; for a result last.n is the spindle the parser returned, last.m is   *)
(* 1 when a listener threw, last.h is the spindle field of the frame's      *)
(* header and last.st holds the frame's status characters.                 *)
(***************************************************************************)
EXTENDS Integers, Sequences, FiniteSets

VARIABLES
  \* constructor options
  autoReconnect, configuredSpindleCount, allowDuplicateCommands,
  \* whether the application has attached a listener for 'error'
  errorListener,
  \* client fields
  socket, heartbeatTimer, reconnectTimer, reconnectDelay, commandSeq, buffer,
  \* time since lastTrafficTs, time since a frame was last written or data
  \* last arrived, and the time each pending command has waited
  idle, silent, elapsed, beat,
  \* the byte stream of the peer and what the decoding loop made of it
  wire, fed, decoded, frameErrors,
  \* the sockets and promises of connect() calls
  socketBy, others, rejected,
  \* state.connection
  connected, linkLayerReady, reconnecting, reconnectAttempts,
  \* state.protocol
  revision, subscriptions,
  \* state.controller
  controllerReady, errorActive, alarms,
  \* state.tool
  toolEnabled, toolRunning, spindleCount, spindleCountSource,
  \* state.product
  vin, vinRequired, vinValid, vinLocked,
  \* state.job
  jobActive,
  \* state.batch
  batch,
  \* state.tightening
  inProgress, pendingSpindles, watchdog,
  \* state.pendingCommands
  pendingCommands,
  \* observations of the last handler
  emitted, written, thrown, last,
  \* history
  cycleCompleted, cycleIncomplete, stopped

cfgVars   == <<autoReconnect, configuredSpindleCount, allowDuplicateCommands, errorListener>>
connVars  == <<socket, heartbeatTimer, reconnectTimer, reconnectDelay,
               connected, linkLayerReady, reconnecting, reconnectAttempts>>
linkVars  == <<socketBy, others, rejected, stopped>>
wireVars  == <<wire, fed, decoded, frameErrors>>
protoVars == <<revision, subscriptions>>
ctrlVars  == <<controllerReady, errorActive, alarms>>
toolVars  == <<toolEnabled, toolRunning>>
spinVars  == <<spindleCount, spindleCountSource>>
prodVars  == <<vin, vinRequired, vinValid, vinLocked>>
tightVars == <<inProgress, pendingSpindles, watchdog>>
cmdVars   == <<pendingCommands, commandSeq>>
outVars   == <<emitted, written, thrown, last>>
histVars  == <<cycleCompleted, cycleIncomplete>>
timeVars  == <<idle, silent, elapsed, beat>>

vars == <<cfgVars, connVars, buffer, timeVars, wireVars, linkVars, protoVars, ctrlVars, toolVars, spinVars, prodVars,
          jobActive, batch, tightVars, cmdVars, outVars, histVars>>

---------------------------------------------------------------------------
(* Bounds of the model *)

\* largest spindle number a result frame or a setSpindleCount call carries
MaxSpindle == 2
\* cap on commandSeq: commands with ACK expected are sent while below it
MaxCommandSeq == 3
\* cap on batch sizes and counters carried by MID 0031 / MID 0021
MaxBatch == 2
\* cap on the length of controller.alarms
MaxAlarms == 2
\* cap on consecutive reconnect attempts
MaxAttempts == 7
\* cap on the sockets of earlier connect() calls that are still alive
MaxOthers == 1
\* cap on the number of garbage bytes in front of a valid frame
MaxGarbage == 2
\* cap on the reconnect attempts followed where closes are examined
MaxRetries == 1
\* cap on the seconds of silence counted
MaxIdle == 8
\* cap on the frameError events counted while the buffer is not empty
MaxFrameErrors == 2

---------------------------------------------------------------------------
(* Program constants *)

HEARTBEAT_INTERVAL_MS == 7000
COMMAND_TIMEOUT_MS == 5000
RECONNECT_INITIAL_DELAY_MS == 1000
RECONNECT_MAX_DELAY_MS == 30000
RECONNECT_BACKOFF_FACTOR == 2

\* JavaScript null for an optional number: the empty sequence; <<n>> is n
Null == <<>>
Some(n) == <<n>>
Val(o) == o[1]

---------------------------------------------------------------------------
(* Events and observations *)

Ev(name, n1, n2, s) == [name |-> name, n1 |-> n1, n2 |-> n2, s |-> s]
E(name) == Ev(name, 0, 0, "")
En(name, n1, n2) == Ev(name, n1, n2, "")

\* the handler that ran last and its input; for an inbound result frame h is
\* the spindle field of its header and st its overall, torque and angle
\* status characters
OpF(op, n, m, h, st) == [op |-> op, n |-> n, m |-> m, h |-> h, st |-> st]
Op(op, n, m) == OpF(op, n, m, 0, <<>>)

B2N(b) == IF b THEN 1 ELSE 0

\* the last line of _handleMID, emit('stateChanged', this.getState()): while
\* the watchdog is armed state.tightening.watchdog is a live Timeout,
\* JSON.stringify throws on it and the catch of _onData emits parseError
emitStateChanged(wd) ==
  IF wd = "armed" THEN <<E("parseError")>> ELSE <<E("stateChanged")>>

Names(evs) == {evs[i].name : i \in DOMAIN evs}
Count(evs, name) == Cardinality({i \in DOMAIN evs : evs[i].name = name})
Mids(wr) == {wr[i].mid : i \in DOMAIN wr}
CountMid(wr, mid) == Cardinality({i \in DOMAIN wr : wr[i].mid = mid})

---------------------------------------------------------------------------
(* State factory and constructor *)

createInitialState ==
  /\ connected = FALSE /\ linkLayerReady = FALSE
  /\ reconnecting = FALSE /\ reconnectAttempts = 0
  /\ revision = 1
  /\ subscriptions = [tighteningResults |-> FALSE, alarms |-> FALSE]
  /\ controllerReady = FALSE /\ errorActive = FALSE /\ alarms = <<>>
  /\ toolEnabled = FALSE /\ toolRunning = FALSE
  /\ spindleCount = 1 /\ spindleCountSource = "default"
  /\ vin = Null /\ vinRequired = FALSE /\ vinValid = FALSE /\ vinLocked = FALSE
  /\ jobActive = FALSE
  /\ batch = [size |-> Null, counter |-> 0, active |-> FALSE,
              complete |-> FALSE, pendingReset |-> FALSE]
  /\ inProgress = FALSE /\ pendingSpindles = <<>> /\ watchdog = "null"
  /\ pendingCommands = <<>>

constructor(ar, sc, dup) ==
  /\ autoReconnect = ar
  /\ configuredSpindleCount = sc
  /\ allowDuplicateCommands = dup
  /\ socket = "null" /\ socketBy = "none" /\ others = <<>> /\ rejected = FALSE
  /\ buffer = <<>>
  /\ idle = 0 /\ silent = 0 /\ elapsed = [id \in 1..MaxCommandSeq |-> 0]
  /\ beat = 0
  /\ wire = <<>> /\ fed = 0 /\ decoded = <<>> /\ frameErrors = 0
  /\ createInitialState
  /\ heartbeatTimer = FALSE /\ reconnectTimer = FALSE
  /\ reconnectDelay = RECONNECT_INITIAL_DELAY_MS
  /\ commandSeq = 0
  /\ emitted = <<>> /\ written = <<>> /\ thrown = "none"
  /\ last = Op("new", 0, 0)
  /\ cycleCompleted = 0 /\ cycleIncomplete = 0 /\ stopped = FALSE

\* new OpenProtocolNutrunner(options), then client.on('error', ...) when
\* listens is true
client(ar, sc, dup, listens) == constructor(ar, sc, dup) /\ errorListener = listens

---------------------------------------------------------------------------
(* Framing: sendMID *)

\* _touchTraffic(): the first statement of sendMID and of _onData
touchTraffic == idle' = 0 /\ UNCHANGED <<elapsed, beat>>

\* data has arrived
received == silent' = 0

\* the frames wr have been handed to socket.write
wrote(wr) == silent' = IF wr = <<>> THEN silent ELSE 0

\* the pending-command table and socket output while a handler runs
Cmd0 == [pc |-> pendingCommands, seq |-> commandSeq, wr |-> <<>>, err |-> "none"]

hasPending(pc, mid) == \E id \in DOMAIN pc : pc[id] = mid

\* pendingCommands.set(cmdId, {mid, ...})
setCmd(pc, cmdId, mid) ==
  [id \in DOMAIN pc \cup {cmdId} |-> IF id = cmdId THEN mid ELSE pc[id]]

\* faulty variant of deleteCmd: the entry stays in the table
keepCmd(pc, cmdId) == pc

\* pendingCommands.delete(cmdId)
deleteCmd(pc, cmdId) == [id \in DOMAIN pc \ {cmdId} |-> pc[id]]

\* sendMID(mid, payload, expectAck) applied to c; a call that follows a call
\* that threw is never reached
sendMID(c, mid, expectAck) ==
  IF c.err # "none" THEN c
  ELSE IF expectAck /\ ~allowDuplicateCommands /\ hasPending(c.pc, mid)
  THEN [c EXCEPT !.err = "CommandError"]
  ELSE LET c1 == IF expectAck
                 THEN [c EXCEPT !.seq = @ + 1, !.pc = setCmd(@, c.seq + 1, mid)]
                 ELSE c
       IN  IF socket = "null"
           THEN [c1 EXCEPT !.err = "TypeError"]
           ELSE [c1 EXCEPT !.wr = Append(@, [mid |-> mid, noAck |-> ~expectAck])]

\* the i-th smallest key of a Map whose keys were inserted in increasing order
IthId(S, i) == CHOOSE x \in S : Cardinality({y \in S : y < x}) = i - 1

---------------------------------------------------------------------------
(* Connection *)

\* a socket in state st still has events to deliver to its listeners
Alive(st) == st \in {"connecting", "open", "destroyed"}

\* some socket of the client delivers a frame to _onData
Receiving == socket = "open" \/ \E i \in DOMAIN others : others[i].st = "open"

RemoveAt(seq, i) == [j \in 1..(Len(seq) - 1) |-> IF j < i THEN seq[j] ELSE seq[j + 1]]

\* this.socket = net.createConnection(...): the socket this.socket referred
\* to keeps its listeners
createConnection(by) ==
  /\ Len(others) + (IF Alive(socket) THEN 1 ELSE 0) <= MaxOthers
  /\ others' = IF Alive(socket) THEN Append(others, [st |-> socket, by |-> socketBy])
               ELSE others
  /\ socket' = "connecting"
  /\ socketBy' = by

\* connect(), called by the user while no socket of an earlier call is alive
Connect ==
  /\ ~connected
  /\ ~Alive(socket)
  /\ createConnection("user")
  /\ stopped' = FALSE
  /\ emitted' = <<>> /\ written' = <<>> /\ thrown' = "none"
  /\ last' = Op("connect", 0, 0)
  /\ UNCHANGED <<cfgVars, wireVars, timeVars, heartbeatTimer, reconnectTimer, reconnectDelay,
                 connected, linkLayerReady, reconnecting, reconnectAttempts,
                 buffer, rejected,
                 protoVars, ctrlVars, toolVars, spinVars, prodVars, jobActive,
                 batch, tightVars, cmdVars, cycleCompleted, cycleIncomplete>>

\* connect(), called by the user while the socket of an earlier call is alive
ConnectAgain ==
  /\ ~connected
  /\ Alive(socket)
  /\ createConnection("user")
  /\ stopped' = FALSE
  /\ emitted' = <<>> /\ written' = <<>> /\ thrown' = "none"
  /\ last' = Op("connect", 1, 0)
  /\ UNCHANGED <<cfgVars, wireVars, timeVars, heartbeatTimer, reconnectTimer, reconnectDelay,
                 connected, linkLayerReady, reconnecting, reconnectAttempts,
                 buffer, rejected,
                 protoVars, ctrlVars, toolVars, spinVars, prodVars, jobActive,
                 batch, tightVars, cmdVars, cycleCompleted, cycleIncomplete>>

\* connect(), called by the user while connected: resolves at once
ConnectWhileConnected ==
  /\ connected
  /\ stopped' = FALSE
  /\ emitted' = <<>> /\ written' = <<>> /\ thrown' = "none"
  /\ last' = Op("connect", 2, 0)
  /\ UNCHANGED <<cfgVars, wireVars, timeVars, connVars, buffer, socketBy, others, rejected,
                 protoVars, ctrlVars, toolVars, spinVars, prodVars, jobActive,
                 batch, tightVars, cmdVars, cycleCompleted, cycleIncomplete>>

\* the connection listener of net.createConnection, of any socket
connectListener ==
  /\ connected' = TRUE
  /\ reconnecting' = FALSE
  /\ reconnectAttempts' = 0
  /\ reconnectDelay' = RECONNECT_INITIAL_DELAY_MS
  /\ IF configuredSpindleCount # Null
     THEN /\ spindleCount' = Val(configuredSpindleCount)
          /\ spindleCountSource' = "config"
     ELSE UNCHANGED spinVars
  \* _startHeartbeat: a new interval
  /\ heartbeatTimer' = TRUE
  /\ beat' = 0
  \* sendMID(1): _touchTraffic
  /\ idle' = 0 /\ UNCHANGED elapsed
  /\ LET c == sendMID(Cmd0, 1, FALSE)
     IN  /\ written' = c.wr
         /\ wrote(c.wr)
         /\ pendingCommands' = c.pc
         /\ commandSeq' = c.seq
  /\ emitted' = <<E("connected")>>
  /\ thrown' = "none"
  /\ UNCHANGED <<cfgVars, wireVars, reconnectTimer, linkLayerReady, buffer,
                 rejected, stopped, protoVars, ctrlVars, toolVars, prodVars, jobActive,
                 batch, tightVars, histVars>>

\* the socket this.socket refers to connects
OnConnect ==
  /\ socket = "connecting"
  /\ socket' = "open"
  /\ connectListener
  /\ last' = Op("onConnect", 0, 0)
  /\ socketBy' = "none"
  /\ UNCHANGED others

\* an earlier socket connects
OtherConnect(i) ==
  /\ i \in DOMAIN others
  /\ others[i].st = "connecting"
  /\ others' = [others EXCEPT ![i] = [st |-> "open", by |-> "none"]]
  /\ connectListener
  /\ last' = Op("onConnect", i, 0)
  /\ UNCHANGED <<socket, socketBy>>

\* _clearPendingCommands: one commandAborted per entry, in Map order
AbortEvents(pc) ==
  [i \in 1..Cardinality(DOMAIN pc) |->
     En("commandAborted", pc[IthId(DOMAIN pc, i)], IthId(DOMAIN pc, i))]

\* _clearWatchdog
clearWatchdog(w) == IF w # "null" THEN "null" ELSE w

\* faulty variant of reschedules: the prior connection state is not tested
reschedulesAlways == autoReconnect

\* whether _onClose calls _scheduleReconnect
reschedules == autoReconnect /\ connected

\* _onClose, the 'close' listener of any socket
onClose ==
  /\ heartbeatTimer' = FALSE
  /\ beat' = 0
  /\ watchdog' = clearWatchdog(watchdog)
  /\ pendingCommands' = <<>>
  /\ connected' = FALSE
  /\ linkLayerReady' = FALSE
  /\ buffer' = <<>>
  /\ IF reschedules
     THEN \* _scheduleReconnect
          /\ reconnectTimer' = TRUE
          /\ reconnecting' = TRUE
          /\ reconnectAttempts' = reconnectAttempts + 1
          /\ emitted' = AbortEvents(pendingCommands) \o
                          <<E("disconnected"),
                            En("reconnecting", reconnectAttempts + 1, reconnectDelay)>>
     ELSE /\ emitted' = AbortEvents(pendingCommands) \o <<E("disconnected")>>
          /\ UNCHANGED <<reconnectTimer, reconnecting, reconnectAttempts>>
  /\ written' = <<>> /\ thrown' = "none"
  /\ UNCHANGED <<cfgVars, wireVars, idle, silent, elapsed, reconnectDelay, commandSeq, socketBy, stopped, protoVars,
                 ctrlVars, toolVars, spinVars, prodVars, jobActive, batch,
                 inProgress, pendingSpindles, histVars>>

\* the 'close' event of the socket this.socket refers to, after the peer
\* closed it, after destroy() or after its 'error' event
OnClose ==
  /\ socket \in {"open", "destroyed"}
  /\ socket' = "closed"
  /\ onClose
  /\ last' = Op("onClose", 0, 0)
  /\ UNCHANGED <<others, rejected>>

\* the 'close' event of an earlier socket
OtherClose(i) ==
  /\ i \in DOMAIN others
  /\ others[i].st \in {"open", "destroyed"}
  /\ others' = RemoveAt(others, i)
  /\ onClose
  /\ last' = Op("onClose", i, 0)
  /\ UNCHANGED <<socket, rejected>>

\* the 'error' listener of connect(): whether it rejects the promise of a
\* connect() that _scheduleReconnect called; the promise of a socket in state
\* st = "open" was resolved by the connection listener and reject(e) does
\* nothing to it
rejects(by, st) == ~connected /\ by = "timer" /\ st = "connecting"

\* the 'error' listener of a socket that connect() created, by tells who
\* called that connect(): emit('error') throws when the application listens
\* to no 'error' event, and reject(e) is not reached.  The socket is
\* destroyed; its 'close' event comes in a later callback
onError(by, st) ==
  /\ IF errorListener
     THEN /\ emitted' = <<E("error")>>
          /\ thrown' = "none"
          /\ rejected' = (rejected \/ rejects(by, st))
     ELSE /\ emitted' = <<>>
          /\ thrown' = "Error"
          /\ UNCHANGED rejected
  /\ written' = <<>>
  /\ UNCHANGED <<cfgVars, wireVars, timeVars, heartbeatTimer, reconnectTimer, reconnectDelay,
                 commandSeq, buffer, stopped, connected, linkLayerReady,
                 reconnecting, reconnectAttempts, protoVars, ctrlVars, toolVars,
                 spinVars, prodVars, jobActive, batch, tightVars, pendingCommands,
                 histVars>>

\* the 'error' event of the socket this.socket refers to: the connection
\* attempt fails, or the open connection is reset
OnError ==
  /\ socket \in {"connecting", "open"}
  /\ socket' = "destroyed"
  /\ onError(socketBy, socket)
  /\ last' = Op("onError", 0, 0)
  /\ socketBy' = "none"
  /\ UNCHANGED others

\* the 'error' event of an earlier socket
OtherError(i) ==
  /\ i \in DOMAIN others
  /\ others[i].st \in {"connecting", "open"}
  /\ others' = [others EXCEPT ![i] = [st |-> "destroyed", by |-> "none"]]
  /\ onError(others[i].by, others[i].st)
  /\ last' = Op("onError", i, 0)
  /\ UNCHANGED <<socket, socketBy>>

\* faulty variant of nextDelay: the cap is left out
nextDelayUncapped(delay) == delay * RECONNECT_BACKOFF_FACTOR

\* Math.min(reconnectDelay * RECONNECT_BACKOFF_FACTOR, RECONNECT_MAX_DELAY_MS)
nextDelay(delay) ==
  IF delay * RECONNECT_BACKOFF_FACTOR < RECONNECT_MAX_DELAY_MS
  THEN delay * RECONNECT_BACKOFF_FACTOR
  ELSE RECONNECT_MAX_DELAY_MS

\* the catch handler of _scheduleReconnect, run as soon as the listeners that
\* rejected the promise have returned
ReconnectCatch ==
  /\ rejected
  /\ rejected' = FALSE
  /\ reconnectDelay' = nextDelay(reconnectDelay)
  /\ reconnectTimer' = TRUE
  /\ reconnecting' = TRUE
  /\ reconnectAttempts' = reconnectAttempts + 1
  /\ emitted' = <<En("reconnecting", reconnectAttempts + 1, nextDelay(reconnectDelay))>>
  /\ written' = <<>> /\ thrown' = "none"
  /\ last' = Op("reconnectCatch", 0, 0)
  /\ UNCHANGED <<cfgVars, wireVars, timeVars, socket, heartbeatTimer, connected, linkLayerReady,
                 buffer, socketBy, others, stopped, protoVars, ctrlVars,
                 toolVars, spinVars, prodVars, jobActive, batch, tightVars,
                 cmdVars, cycleCompleted, cycleIncomplete>>

\* the timer callback of _scheduleReconnect: connect()
ReconnectFire ==
  /\ reconnectTimer
  /\ reconnectAttempts < MaxAttempts
  /\ reconnectTimer' = FALSE
  /\ IF connected
     THEN UNCHANGED <<socket, socketBy, others>>
     ELSE createConnection("timer")
  /\ emitted' = <<>> /\ written' = <<>> /\ thrown' = "none"
  /\ last' = Op("reconnectFire", B2N(~connected), 0)
  /\ UNCHANGED <<cfgVars, wireVars, timeVars, heartbeatTimer, reconnectDelay, connected,
                 linkLayerReady, reconnecting, reconnectAttempts, buffer,
                 rejected, stopped, protoVars, ctrlVars, toolVars, spinVars,
                 prodVars, jobActive, batch, tightVars, cmdVars,
                 cycleCompleted, cycleIncomplete>>

---------------------------------------------------------------------------
(* Heartbeat *)

\* idle >= HEARTBEAT_INTERVAL_MS
heartbeatDue(t) == t >= HEARTBEAT_INTERVAL_MS

\* the output of the setInterval callback of _startHeartbeat at idle time t
heartbeat(t) ==
  IF connected /\ heartbeatDue(t) THEN sendMID(Cmd0, 9999, FALSE) ELSE Cmd0

\* a pending command has waited COMMAND_TIMEOUT_MS: its timer is due
due(cmdId) == cmdId \in DOMAIN pendingCommands /\ elapsed[cmdId] >= COMMAND_TIMEOUT_MS

\* the time the commands have waited after another d milliseconds
aged(d) == [id \in DOMAIN elapsed |->
              IF id \in DOMAIN pendingCommands THEN elapsed[id] + d ELSE 0]

\* the times left on the timers that are armed: the 1000 ms of the heartbeat
\* interval and the COMMAND_TIMEOUT_MS of each pending command
timeLeft ==
  (IF heartbeatTimer THEN {1000 - beat} ELSE {}) \cup
  {COMMAND_TIMEOUT_MS - elapsed[id] : id \in DOMAIN pendingCommands}

\* the time to the next timer that expires, a second when none is armed
untilDue ==
  IF timeLeft = {} THEN 1000
  ELSE CHOOSE t \in timeLeft : \A u \in timeLeft : t <= u

\* the setInterval callback of _startHeartbeat, run when its 1000 ms have
\* passed, at the time Date.now() of idle and silent
HeartbeatTick ==
  /\ heartbeatTimer
  /\ beat >= 1000
  /\ beat' = 0
  /\ idle' = IF connected /\ heartbeatDue(idle) THEN 0 ELSE idle
  /\ silent' = IF heartbeat(idle).wr # <<>> THEN 0 ELSE silent
  /\ written' = heartbeat(idle).wr
  /\ pendingCommands' = heartbeat(idle).pc
  /\ commandSeq' = heartbeat(idle).seq
  /\ thrown' = heartbeat(idle).err
  /\ emitted' = <<>>
  /\ last' = Op("tick", idle, silent)
  /\ UNCHANGED <<cfgVars, wireVars, connVars, buffer, linkVars, protoVars, ctrlVars,
                 toolVars, spinVars, prodVars, jobActive, batch, tightVars, histVars,
                 elapsed>>

\* d milliseconds pass in which no callback runs: no timer expires before
\* they are over
TimePasses(d) ==
  /\ d > 0 /\ d <= untilDue
  /\ silent + d <= MaxIdle * 1000
  /\ idle' = idle + d
  /\ silent' = silent + d
  /\ elapsed' = aged(d)
  /\ beat' = IF heartbeatTimer THEN beat + d ELSE 0
  /\ emitted' = <<>> /\ written' = <<>> /\ thrown' = "none"
  /\ last' = Op("wait", d, 0)
  /\ UNCHANGED <<cfgVars, wireVars, connVars, buffer, linkVars, protoVars, ctrlVars,
                 toolVars, spinVars, prodVars, jobActive, batch, tightVars, cmdVars,
                 histVars>>

---------------------------------------------------------------------------
(* Framing: _onData *)

\* data.toString() of a Buffer: the bytes are decoded as UTF-8, chunk by chunk.
\* "C3" "A9" are the two bytes of U+00E9; a lead byte without its continuation
\* byte in the same chunk, and a continuation byte without a lead byte, each
\* decode to the replacement character U+FFFD.  Every other byte of the model
\* is ASCII and decodes to itself.
RECURSIVE toString(_)
toString(data) ==
  IF data = <<>> THEN <<>>
  ELSE IF Head(data) = "C3" /\ Len(data) >= 2 /\ data[2] = "A9"
  THEN <<"U+00E9">> \o toString(Tail(Tail(data)))
  ELSE IF Head(data) \in {"C3", "A9"} THEN <<"U+FFFD">> \o toString(Tail(data))
  ELSE <<Head(data)>> \o toString(Tail(data))

\* str.replace(/\0/g, '')
stripNul(data) == SelectSeq(data, LAMBDA ch : ch # "NUL")

---------------------------------------------------------------------------
(* Framing: the decoding loop of _onData, on characters.  validateFrames   *)
(* is at its default, true.                                                *)

Digits == <<"0", "1", "2", "3", "4", "5", "6", "7", "8", "9">>
IsDigit(ch) == \E d \in DOMAIN Digits : Digits[d] = ch
DigitVal(ch) == (CHOOSE d \in DOMAIN Digits : Digits[d] = ch) - 1

\* str.slice(from, to) of JavaScript, for 0 <= from
slice(str, from, to) == SubSeq(str, from + 1, IF to < Len(str) THEN to ELSE Len(str))

\* /^\d{4}$/.test(lenStr)
allDigits(str) == Len(str) = 4 /\ \A i \in DOMAIN str : IsDigit(str[i])

\* the value parseInt and Number return for a string that is no number
NaN == -1

RECURSIVE digitPrefix(_, _)
digitPrefix(str, acc) ==
  IF str = <<>> \/ ~IsDigit(Head(str)) THEN acc
  ELSE digitPrefix(Tail(str), 10 * acc + DigitVal(Head(str)))

RECURSIVE skipSpace(_)
skipSpace(str) == IF str # <<>> /\ Head(str) = " " THEN skipSpace(Tail(str)) ELSE str

\* parseInt(str, 10) of an unsigned string: leading blanks are skipped and the
\* longest prefix of digits is read
parseInt(str) ==
  IF skipSpace(str) = <<>> \/ ~IsDigit(Head(skipSpace(str))) THEN NaN
  ELSE digitPrefix(skipSpace(str), 0)

\* the MIDs _handleMID has a case for
HandledMids == {2, 3, 4, 5, 11, 21, 41, 51, 52, 35, 31, 61, 65, 70, 76, 101}

\* the MIDs whose case writes a field of the model or emits an event: case 11
\* writes job.paramSetId only and leaves the model as the default case does
ModelledMids == HandledMids \ {11}

\* the MID _onData reads from a frame cut out of the buffer
midOf(frame) == parseInt(slice(frame, 0, 4))

\* the while loop of _onData applied to r.buf: r.ev collects the events it
\* emits and r.frames the frames it cuts out, each followed by the last
\* emit of _handleMID (default case)
RECURSIVE decodeLoop(_)
decodeLoop(r) ==
  IF Len(r.buf) < 4 THEN r
  ELSE IF ~allDigits(slice(r.buf, 0, 4))
  THEN decodeLoop([r EXCEPT !.ev = Append(@, Ev("frameError", 0, 0, "invalid_length")),
                            !.buf = slice(@, 1, Len(@))])
  ELSE IF parseInt(slice(r.buf, 0, 4)) < 20 \/ parseInt(slice(r.buf, 0, 4)) > 9999
  THEN decodeLoop([r EXCEPT !.ev = Append(@, Ev("frameError", parseInt(slice(r.buf, 0, 4)),
                                              0, "length_out_of_range")),
                            !.buf = slice(@, 1, Len(@))])
  ELSE IF Len(r.buf) < parseInt(slice(r.buf, 0, 4)) THEN r
  ELSE decodeLoop([r EXCEPT !.frames = Append(@, slice(r.buf, 4, parseInt(slice(r.buf, 0, 4)))),
                            !.ev = @ \o emitStateChanged(watchdog),
                            !.buf = slice(@, parseInt(slice(r.buf, 0, 4)), Len(@))])

\* _onData given r, what the decoding loop made of the buffer and of data
\* that completes no frame
Fragment(n, r) ==
  /\ Receiving
  /\ touchTraffic
  /\ received
  /\ r.frames = <<>>
  /\ frameErrors + Count(r.ev, "frameError") <= MaxFrameErrors
  /\ buffer' = r.buf
  /\ frameErrors' = frameErrors + Count(r.ev, "frameError")
  /\ emitted' = r.ev /\ written' = <<>> /\ thrown' = "none"
  /\ last' = Op("fragment", n, 0)
  /\ UNCHANGED <<cfgVars, wire, fed, decoded, connVars, linkVars, protoVars, ctrlVars,
                 toolVars, spinVars, prodVars, jobActive, batch, tightVars, cmdVars,
                 cycleCompleted, cycleIncomplete>>

\* _onData(data) with data that is no whole frame
RcvFragment(data) ==
  Fragment(Len(data), decodeLoop([buf |-> buffer \o stripNul(toString(data)),
                                  ev |-> <<>>, frames |-> <<>>]))

\* the peer writes w to the connection
PeerSends(w) ==
  /\ socket = "open"
  /\ wire = <<>>
  /\ wire' = w
  /\ UNCHANGED <<cfgVars, connVars, buffer, timeVars, fed, decoded, frameErrors, linkVars,
                 protoVars, ctrlVars, toolVars, spinVars, prodVars, jobActive, batch,
                 tightVars, cmdVars, outVars, histVars>>

\* _onData(data) given r, what the decoding loop made of buffer + data
Decoded(k, r) ==
  /\ Receiving
  /\ touchTraffic
  /\ received
  /\ \A i \in DOMAIN r.frames : midOf(r.frames[i]) \notin ModelledMids
  /\ fed' = fed + k
  /\ buffer' = r.buf
  /\ decoded' = decoded \o r.frames
  /\ frameErrors' = frameErrors + Count(r.ev, "frameError")
  /\ emitted' = r.ev /\ written' = <<>> /\ thrown' = "none"
  /\ last' = Op("data", k, Len(r.frames))
  /\ UNCHANGED <<cfgVars, wire, connVars, linkVars, protoVars, ctrlVars, toolVars,
                 spinVars, prodVars, jobActive, batch, tightVars, cmdVars, histVars>>

\* the socket delivers the next k bytes of the stream to _onData
OnData(k) ==
  /\ k \in 1..(Len(wire) - fed)
  /\ Decoded(k, decodeLoop([buf |-> buffer \o stripNul(toString(SubSeq(wire, fed + 1, fed + k))),
                            ev |-> <<>>, frames |-> <<>>]))

\* a frame of 10 * a characters, a in 2..9: the length field and a body
shortFrame(a) == <<"0", "0", Digits[a + 1], "0">> \o [i \in 1..(10 * a - 4) |-> "9"]

\* the decoding loop on the buffer followed by a frame of 10 * a characters
resync(a) == decodeLoop([buf |-> buffer \o shortFrame(a), ev |-> <<>>, frames |-> <<>>])

\* _onData given r, what the decoding loop made of the buffer and one frame
\* of 10 * a characters that _handleMID answers with the events ev: the frame
\* cut out is the one that arrived
Resynced(a, r, ev) ==
  /\ r.frames = <<SubSeq(shortFrame(a), 5, 10 * a)>> /\ r.buf = <<>>
  /\ frameErrors + Count(r.ev, "frameError") <= MaxFrameErrors
  /\ buffer' = <<>>
  /\ frameErrors' = frameErrors + Count(r.ev, "frameError")
  /\ emitted' = SelectSeq(r.ev, LAMBDA e : e.name = "frameError") \o ev

\* _onData with a whole frame of 10 * a to 10 * a + 9 characters, which
\* _handleMID answers with the events ev: the characters left in the buffer
\* by earlier fragments are dropped one by one, a frameError each, before the
\* frame is cut out.  The frame of a MID is as long as the fields _parseMID
\* reads from it.
Framed(a, ev) ==
  IF buffer = <<>>
  THEN buffer' = <<>> /\ frameErrors' = frameErrors /\ emitted' = ev
  ELSE Resynced(a, resync(a), ev)

---------------------------------------------------------------------------
(* MID parsers: the fields of a result payload the parsers read *)

\* p.spindle: the 2-digit spindle field of the payload (Rev 2/3, MID 0065),
\* p.ts, p.as: torque and angle status characters, p.ov: the Rev 4 status at 71,
\* p.hdr: the 2-digit spindle field of the header, which _onData cuts off
\* before it calls _parseMID (payload = frame.slice(16))
parse0061(rev, p) ==
  IF rev = 1
  THEN [spindle |-> 1, ok |-> (p.ts = "1" /\ p.as = "1")]
  ELSE IF rev = 4
  THEN [spindle |-> 1, ok |-> (p.ov = "1")]
  ELSE [spindle |-> IF p.spindle = 0 THEN 1 ELSE p.spindle,
        ok |-> (p.ts = "1" /\ p.as = "1")]

parse0065(p) ==
  [spindle |-> IF p.spindle = 0 THEN 1 ELSE p.spindle,
   ok |-> (p.ts = "1" /\ p.as = "1")]

parseResult(mid, rev, p) == IF mid = 61 THEN parse0061(rev, p) ELSE parse0065(p)

---------------------------------------------------------------------------
(* Tightening lifecycle *)

Truthy(v) == v # Null /\ Val(v) # ""

Inc2(n) == IF n < 2 THEN n + 1 ELSE n

\* pendingSpindles.set(spindle, d)
setSpindle(ps, spindle, ok) ==
  [k \in DOMAIN ps \cup {spindle} |-> IF k = spindle THEN ok ELSE ps[k]]

SizeNum(b) == IF b.size = Null THEN 0 ELSE Val(b.size)

\* _handleMID case 41 with _startTighteningCycle and _startWatchdog
RcvMID41(d) ==
  /\ Receiving
  /\ touchTraffic
  /\ received
  /\ controllerReady' = d.controllerReady
  /\ toolEnabled' = d.toolEnabled
  /\ toolRunning' = d.toolRunning
  /\ errorActive' = d.alarmActive
  /\ IF d.toolRunning /\ ~inProgress
     THEN /\ inProgress' = TRUE
          /\ watchdog' = "armed"
          /\ Framed(2, <<E("tighteningCycleStarted")>> \o emitStateChanged("armed"))
          /\ cycleCompleted' = 0 /\ cycleIncomplete' = 0
     ELSE /\ Framed(2, emitStateChanged(watchdog))
          /\ UNCHANGED <<inProgress, watchdog, histVars>>
  /\ written' = <<>> /\ thrown' = "none"
  /\ last' = Op("MID41", B2N(d.toolRunning), 0)
  /\ UNCHANGED <<cfgVars, wire, fed, decoded, linkVars, connVars, protoVars, alarms, spinVars, prodVars,
                 jobActive, batch, pendingSpindles, cmdVars>>

\* faulty variant of adoptFromResult: the source of the count is not tested
adoptFromResultAnySource(spindle) == spindle > spindleCount

\* _handleTighteningResult: whether a result's spindle number is adopted as
\* the spindle count
adoptFromResult(spindle) ==
  spindleCountSource = "default" /\ spindle > spindleCount

\* _handleMID case 101: whether the reported count is adopted
adoptFromMID101(count) ==
  spindleCountSource # "config" /\ spindleCountSource # "manual" /\ count > 0

\* faulty variant of ackSent: sendMID(62) follows the call instead of sitting
\* in a finally block
ackSentOnSuccess(threw) == ~threw

\* _handleMID case 61/65: sendMID(62) sits in a finally block, so it runs
\* whether or not _handleTighteningResult threw
ackSent(threw) == TRUE

\* The emit calls of _handleTighteningResult, in order; a listener that throws
\* at throwAt ends the handler there ("none": no listener throws).
EmitPoints == {"vinLocked", "spindleCountUpdated", "spindleResult",
               "batchProgress", "batchCompleted", "tighteningCycleCompleted"}

\* what _handleTighteningResult reads and writes, as it starts; threw: a
\* listener has thrown; done: lines 810-816 have run; bumped: line 820 has run;
\* ok, n: overallOk and the number of results, captured at lines 812-813
Agg0 ==
  [vinLocked |-> vinLocked, spindleCount |-> spindleCount,
   spindleCountSource |-> spindleCountSource, pendingSpindles |-> pendingSpindles,
   watchdog |-> watchdog, inProgress |-> inProgress, batch |-> batch,
   ev |-> <<>>, threw |-> FALSE, done |-> FALSE, bumped |-> FALSE,
   ok |-> TRUE, n |-> 0]

\* emit(event) with a listener that throws when the event is throwAt
emit(r, event, throwAt) ==
  [r EXCEPT !.ev = Append(@, event), !.threw = (event.name = throwAt)]

\* faulty variant of aggLockVin: product.vin is not tested
aggLockVinAlways(r, throwAt) ==
  IF ~r.vinLocked
  THEN emit([r EXCEPT !.vinLocked = TRUE], E("vinLocked"), throwAt)
  ELSE r

\* lines 786-789: the VIN lock
aggLockVin(r, throwAt) ==
  IF ~r.vinLocked /\ Truthy(vin)
  THEN emit([r EXCEPT !.vinLocked = TRUE], E("vinLocked"), throwAt)
  ELSE r

\* lines 791-800: spindle count auto-detection
aggAdopt(r, d, throwAt) ==
  IF r.threw THEN r
  ELSE IF adoptFromResult(d.spindle)
  THEN emit([r EXCEPT !.spindleCount = d.spindle, !.spindleCountSource = "mid061"],
            Ev("spindleCountUpdated", d.spindle, 0, "mid061"), throwAt)
  ELSE r

\* lines 802-803: spindleResult, then pendingSpindles.set
aggStore(r, d, throwAt) ==
  IF r.threw THEN r
  ELSE IF throwAt = "spindleResult"
  THEN emit(r, En("spindleResult", d.spindle, B2N(d.ok)), throwAt)
  ELSE [emit(r, En("spindleResult", d.spindle, B2N(d.ok)), throwAt)
          EXCEPT !.pendingSpindles = setSpindle(@, d.spindle, d.ok)]

\* lines 805-816: return while results are missing, else end the cycle
aggFinish(r) ==
  IF r.threw \/ Cardinality(DOMAIN r.pendingSpindles) < r.spindleCount THEN r
  ELSE [r EXCEPT !.watchdog = clearWatchdog(@),
                 !.ok = \A k \in DOMAIN r.pendingSpindles : r.pendingSpindles[k],
                 !.n = Cardinality(DOMAIN r.pendingSpindles),
                 !.pendingSpindles = <<>>,
                 !.inProgress = FALSE,
                 !.done = TRUE]

\* lines 819-826: batch progress
aggBatchProgress(r, throwAt) ==
  IF r.threw \/ ~r.done THEN r
  ELSE IF r.batch.active /\ ~r.batch.complete
  THEN emit([r EXCEPT !.batch.counter = @ + 1, !.bumped = TRUE],
            En("batchProgress", r.batch.counter + 1, SizeNum(r.batch)), throwAt)
  ELSE r

\* faulty variant of aggBatchCompleted: batch.active is left as it is
aggBatchCompletedStillActive(r, throwAt) ==
  IF r.threw \/ ~r.bumped THEN r
  ELSE IF r.batch.counter >= SizeNum(r.batch)
  THEN emit([r EXCEPT !.batch.complete = TRUE], E("batchCompleted"), throwAt)
  ELSE r

\* lines 828-832: batch completion
aggBatchCompleted(r, throwAt) ==
  IF r.threw \/ ~r.bumped THEN r
  ELSE IF r.batch.counter >= SizeNum(r.batch)
  THEN emit([r EXCEPT !.batch.complete = TRUE, !.batch.active = FALSE],
            E("batchCompleted"), throwAt)
  ELSE r

\* lines 835-839: tighteningCycleCompleted
aggCompleted(r, throwAt) ==
  IF r.threw \/ ~r.done THEN r
  ELSE emit(r, En("tighteningCycleCompleted", B2N(r.ok), r.n), throwAt)

\* _handleTighteningResult(d)
handleTighteningResult(d, throwAt) ==
  aggCompleted(
    aggBatchCompleted(
      aggBatchProgress(
        aggFinish(
          aggStore(
            aggAdopt(
              aggLockVin(Agg0, throwAt),
              d, throwAt),
            d, throwAt)),
        throwAt),
      throwAt),
    throwAt)

\* _handleMID case 61/65 given r, what _handleTighteningResult(d) left:
\* finally sendMID(62); then stateChanged, or parseError from the catch of
\* _onData.  A result frame has more than 100 characters: it is taken as
\* arriving whole on an empty buffer
ApplyResult(mid, p, d, r, c, throwAt) ==
  /\ Receiving
  /\ touchTraffic
  /\ received
  /\ buffer = <<>>
  /\ buffer' = <<>>
  /\ throwAt = "none" \/ r.threw
  /\ vinLocked' = r.vinLocked
  /\ spindleCount' = r.spindleCount
  /\ spindleCountSource' = r.spindleCountSource
  /\ pendingSpindles' = r.pendingSpindles
  /\ watchdog' = r.watchdog
  /\ inProgress' = r.inProgress
  /\ batch' = r.batch
  /\ emitted' = r.ev \o (IF r.threw THEN <<E("parseError")>> ELSE emitStateChanged(r.watchdog))
  /\ written' = c.wr
  /\ pendingCommands' = c.pc
  /\ commandSeq' = c.seq
  /\ thrown' = "none"
  /\ last' = OpF(IF mid = 61 THEN "MID61" ELSE "MID65", d.spindle, B2N(r.threw),
                  p.hdr, <<p.ov, p.ts, p.as>>)
  /\ cycleCompleted' = IF "tighteningCycleCompleted" \in Names(r.ev)
                       THEN Inc2(cycleCompleted) ELSE cycleCompleted
  /\ UNCHANGED <<cfgVars, wireVars, linkVars, connVars, protoVars, ctrlVars, toolVars, vin,
                 vinRequired, vinValid, jobActive, cycleIncomplete>>

ResultAck(r) == IF ackSent(r.threw) THEN sendMID(Cmd0, 62, FALSE) ELSE Cmd0

ResultStep(mid, p, d, r, throwAt) == ApplyResult(mid, p, d, r, ResultAck(r), throwAt)

OnResult(mid, p, d, throwAt) ==
  ResultStep(mid, p, d, handleTighteningResult(d, throwAt), throwAt)

\* a MID 0061 / MID 0065 frame with payload p arrives; no listener throws
RcvResult(mid, p) == OnResult(mid, p, parseResult(mid, revision, p), "none")

\* the same, with a listener that throws at throwAt
RcvResultThrows(mid, p, throwAt) ==
  throwAt \in EmitPoints /\ OnResult(mid, p, parseResult(mid, revision, p), throwAt)

\* the watchdog callback armed by _startWatchdog
WatchdogFire ==
  /\ watchdog = "armed"
  /\ watchdog' = "fired"
  /\ inProgress' = FALSE
  /\ pendingSpindles' = <<>>
  /\ emitted' = <<En("tighteningIncomplete", spindleCount,
                     Cardinality(DOMAIN pendingSpindles))>>
  /\ written' = <<>> /\ thrown' = "none"
  /\ last' = Op("watchdog", 0, 0)
  /\ cycleIncomplete' = Inc2(cycleIncomplete)
  /\ UNCHANGED <<cfgVars, wireVars, timeVars, linkVars, buffer, connVars, protoVars, ctrlVars, toolVars, spinVars,
                 prodVars, jobActive, batch, cmdVars, cycleCompleted>>

\* setSpindleCount(count)
SetSpindleCount(count) ==
  /\ IF count < 1 \/ count > 99
     THEN /\ thrown' = "Error"
          /\ emitted' = <<>>
          /\ UNCHANGED spinVars
     ELSE /\ thrown' = "none"
          /\ spindleCount' = count
          /\ spindleCountSource' = "manual"
          /\ emitted' = <<Ev("spindleCountUpdated", count, 0, "manual")>>
  /\ written' = <<>>
  /\ last' = Op("setSpindleCount", count, 0)
  /\ UNCHANGED <<cfgVars, wireVars, timeVars, linkVars, buffer, connVars, protoVars, ctrlVars, toolVars, prodVars,
                 jobActive, batch, tightVars, cmdVars, histVars>>

\* _handleMID case 101
RcvMID101(count) ==
  /\ Receiving
  /\ touchTraffic
  /\ received
  /\ IF adoptFromMID101(count)
     THEN /\ spindleCount' = count
          /\ spindleCountSource' = "mid101"
          /\ Framed(5, <<Ev("spindleCountUpdated", count, 0, "mid101"),
                           E("multiSpindleCycleComplete")>> \o emitStateChanged(watchdog))
     ELSE /\ Framed(5, <<E("multiSpindleCycleComplete")>> \o emitStateChanged(watchdog))
          /\ UNCHANGED spinVars
  /\ written' = <<>> /\ thrown' = "none"
  /\ last' = Op("MID101", count, 0)
  /\ UNCHANGED <<cfgVars, wire, fed, decoded, linkVars, connVars, protoVars, ctrlVars, toolVars, prodVars,
                 jobActive, batch, tightVars, cmdVars, histVars>>

---------------------------------------------------------------------------
(* MID -> state: the remaining cases of _handleMID *)

\* what the try/catch of _onData and the end of _handleMID emit last
Closing(c) == IF c.err # "none" THEN <<E("parseError")>> ELSE emitStateChanged(watchdog)

\* _handleMID case 2/3 with subscribeTighteningResults and subscribeAlarms
RcvMID2or3(rev) ==
  LET c1 == sendMID(Cmd0, 60, TRUE)
      c2 == sendMID(c1, 70, TRUE)
  IN
  /\ Receiving
  /\ touchTraffic
  /\ received
  /\ c2.seq <= MaxCommandSeq
  /\ revision' = rev
  /\ linkLayerReady' = TRUE
  /\ subscriptions' = [tighteningResults |-> (subscriptions.tighteningResults \/ c1.err = "none"),
                       alarms |-> (subscriptions.alarms \/ c2.err = "none")]
  /\ pendingCommands' = c2.pc
  /\ commandSeq' = c2.seq
  /\ written' = c2.wr
  /\ Framed(2, <<En("linkEstablished", rev, 0)>> \o Closing(c2))
  /\ thrown' = "none"
  /\ last' = Op("MID3", rev, 0)
  /\ UNCHANGED <<cfgVars, wire, fed, decoded, linkVars, socket, heartbeatTimer, reconnectTimer, reconnectDelay,
                 connected, reconnecting, reconnectAttempts, ctrlVars, toolVars,
                 spinVars, prodVars, jobActive, batch, tightVars, histVars>>

\* faulty variant of firstPending: the entry inserted last
newestPending(pc, mid) ==
  CHOOSE id \in DOMAIN pc : pc[id] = mid /\ \A o \in DOMAIN pc : pc[o] = mid => id >= o

\* the entry _resolvePendingCommand(mid) resolves: the first one in Map order
firstPending(pc, mid) ==
  CHOOSE id \in DOMAIN pc : pc[id] = mid /\ \A o \in DOMAIN pc : pc[o] = mid => id <= o

\* _resolvePendingCommand(mid, success): the table afterwards
resolvePendingCommand(pc, mid) ==
  IF hasPending(pc, mid) THEN deleteCmd(pc, firstPending(pc, mid)) ELSE pc

\* _resolvePendingCommand(mid, success): what it emits
resolveEvents(pc, mid, success) ==
  IF hasPending(pc, mid)
  THEN <<En(IF success THEN "commandSuccess" ELSE "commandFailed", mid,
            firstPending(pc, mid))>>
  ELSE <<>>

\* whether a MID 0004 ends the pending batch reset
resetFailedBy(failedMid) == batch.pendingReset

\* _handleMID case 4
RcvMID4(failedMid) ==
  /\ Receiving
  /\ touchTraffic
  /\ received
  /\ pendingCommands' = resolvePendingCommand(pendingCommands, failedMid)
  /\ batch' = IF resetFailedBy(failedMid) THEN [batch EXCEPT !.pendingReset = FALSE]
              ELSE batch
  /\ Framed(2, resolveEvents(pendingCommands, failedMid, FALSE) \o
            <<En("commandError", failedMid, 0)>> \o
            (IF resetFailedBy(failedMid) THEN <<En("batchResetFailed", failedMid, 0)>>
             ELSE <<>>) \o
            emitStateChanged(watchdog))
  /\ written' = <<>> /\ thrown' = "none"
  /\ last' = Op("MID4", failedMid, batch.counter)
  /\ UNCHANGED <<cfgVars, wire, fed, decoded, linkVars, connVars, protoVars, ctrlVars, toolVars, spinVars,
                 prodVars, jobActive, tightVars, commandSeq, histVars>>

\* whether a MID 0005 confirms the pending batch reset
resetConfirmedBy(acceptedMid) == batch.pendingReset /\ acceptedMid = 20

\* _handleMID case 5
RcvMID5(acceptedMid) ==
  /\ Receiving
  /\ touchTraffic
  /\ received
  /\ pendingCommands' = resolvePendingCommand(pendingCommands, acceptedMid)
  /\ batch' = IF resetConfirmedBy(acceptedMid)
              THEN [batch EXCEPT !.counter = 0, !.complete = FALSE,
                                 !.pendingReset = FALSE]
              ELSE batch
  /\ Framed(2, resolveEvents(pendingCommands, acceptedMid, TRUE) \o
            <<En("commandAccepted", acceptedMid, 0)>> \o
            (IF resetConfirmedBy(acceptedMid) THEN <<E("batchResetConfirmed")>>
             ELSE <<>>) \o
            emitStateChanged(watchdog))
  /\ written' = <<>> /\ thrown' = "none"
  /\ last' = Op("MID5", acceptedMid, batch.counter)
  /\ UNCHANGED <<cfgVars, wire, fed, decoded, linkVars, connVars, protoVars, ctrlVars, toolVars, spinVars,
                 prodVars, jobActive, tightVars, commandSeq, histVars>>

\* the timeout callback sendMID arms for command cmdId: every command waits
\* COMMAND_TIMEOUT_MS, so the timers fire in the order the commands were sent
CommandTimeout(cmdId) ==
  /\ cmdId \in DOMAIN pendingCommands
  /\ \A id \in DOMAIN pendingCommands : cmdId <= id
  /\ pendingCommands' = deleteCmd(pendingCommands, cmdId)
  /\ emitted' = <<En("commandTimeout", pendingCommands[cmdId], cmdId)>>
  /\ written' = <<>> /\ thrown' = "none"
  /\ last' = Op("commandTimeout", cmdId, 0)
  /\ UNCHANGED <<cfgVars, wireVars, timeVars, linkVars, buffer, connVars, protoVars, ctrlVars, toolVars, spinVars,
                 prodVars, jobActive, batch, tightVars, commandSeq, histVars>>

\* _handleMID case 11: job.paramSetId is the only field it writes
RcvMID11(paramSetId) ==
  /\ Receiving
  /\ touchTraffic
  /\ received
  /\ Framed(2, emitStateChanged(watchdog))
  /\ written' = <<>> /\ thrown' = "none"
  /\ last' = Op("MID11", paramSetId, 0)
  /\ UNCHANGED <<cfgVars, wire, fed, decoded, linkVars, connVars, protoVars, ctrlVars, toolVars,
                 spinVars, prodVars, jobActive, batch, tightVars, cmdVars, histVars>>

\* _handleMID case 21
RcvMID21(batchCounter) ==
  /\ Receiving
  /\ touchTraffic
  /\ received
  /\ batch' = [batch EXCEPT !.counter = batchCounter]
  /\ Framed(2, emitStateChanged(watchdog))
  /\ written' = <<>> /\ thrown' = "none"
  /\ last' = Op("MID21", batchCounter, 0)
  /\ UNCHANGED <<cfgVars, wire, fed, decoded, linkVars, connVars, protoVars, ctrlVars, toolVars, spinVars,
                 prodVars, jobActive, tightVars, cmdVars, histVars>>

\* _handleMID case 31
RcvMID31(batchSize, batchCounter) ==
  /\ Receiving
  /\ touchTraffic
  /\ received
  /\ batch' = [size |-> Some(batchSize), counter |-> batchCounter, active |-> TRUE,
               complete |-> FALSE, pendingReset |-> FALSE]
  /\ vinLocked' = FALSE
  /\ Framed(3, <<En("batchStarted", batchSize, batchCounter)>> \o emitStateChanged(watchdog))
  /\ written' = <<>> /\ thrown' = "none"
  /\ last' = Op("MID31", batchSize, batchCounter)
  /\ UNCHANGED <<cfgVars, wire, fed, decoded, linkVars, connVars, protoVars, ctrlVars, toolVars, spinVars,
                 vin, vinRequired, vinValid, jobActive, tightVars, cmdVars, histVars>>

\* _handleMID case 35
RcvMID35 ==
  /\ Receiving
  /\ touchTraffic
  /\ received
  /\ jobActive' = TRUE
  /\ vinLocked' = FALSE
  /\ Framed(2, <<E("jobSelected")>> \o emitStateChanged(watchdog))
  /\ written' = <<>> /\ thrown' = "none"
  /\ last' = Op("MID35", 0, 0)
  /\ UNCHANGED <<cfgVars, wire, fed, decoded, linkVars, connVars, protoVars, ctrlVars, toolVars, spinVars,
                 vin, vinRequired, vinValid, batch, tightVars, cmdVars, histVars>>

\* _handleMID case 51; v is the trimmed payload
RcvMID51(v) ==
  /\ Receiving
  /\ touchTraffic
  /\ received
  /\ vin' = Some(v)
  /\ vinValid' = TRUE
  /\ Framed(2, emitStateChanged(watchdog))
  /\ written' = <<>> /\ thrown' = "none"
  /\ last' = Op("MID51", 0, 0)
  /\ UNCHANGED <<cfgVars, wire, fed, decoded, linkVars, connVars, protoVars, ctrlVars, toolVars, spinVars,
                 vinRequired, vinLocked, jobActive, batch, tightVars, cmdVars,
                 histVars>>

\* _handleMID case 52
RcvMID52 ==
  /\ Receiving
  /\ touchTraffic
  /\ received
  /\ vinRequired' = TRUE
  /\ Framed(2, <<E("vinRequired")>> \o emitStateChanged(watchdog))
  /\ written' = <<>> /\ thrown' = "none"
  /\ last' = Op("MID52", 0, 0)
  /\ UNCHANGED <<cfgVars, wire, fed, decoded, linkVars, connVars, protoVars, ctrlVars, toolVars, spinVars,
                 vin, vinValid, vinLocked, jobActive, batch, tightVars, cmdVars,
                 histVars>>

\* _handleMID case 70
RcvMID70(alarmCode) ==
  /\ Receiving
  /\ touchTraffic
  /\ received
  /\ Len(alarms) < MaxAlarms
  /\ alarms' = Append(alarms, alarmCode)
  /\ errorActive' = TRUE
  /\ Framed(4, <<En("alarm", alarmCode, 0)>> \o emitStateChanged(watchdog))
  /\ written' = <<>> /\ thrown' = "none"
  /\ last' = Op("MID70", alarmCode, 0)
  /\ UNCHANGED <<cfgVars, wire, fed, decoded, linkVars, connVars, protoVars, controllerReady, toolVars, spinVars,
                 prodVars, jobActive, batch, tightVars, cmdVars, histVars>>

\* faulty variant of clearsAlarms: every MID 0076 empties the list
clearsAlarmsAlways(alarmStatus) == TRUE

\* _handleMID case 76: whether the alarm list is emptied
clearsAlarms(alarmStatus) == ~alarmStatus

\* _handleMID case 76
RcvMID76(alarmStatus) ==
  /\ Receiving
  /\ touchTraffic
  /\ received
  /\ IF clearsAlarms(alarmStatus)
     THEN alarms' = <<>> /\ errorActive' = FALSE
     ELSE UNCHANGED <<alarms, errorActive>>
  /\ Framed(2, <<En("alarmStatus", B2N(alarmStatus), 0)>> \o emitStateChanged(watchdog))
  /\ written' = <<>> /\ thrown' = "none"
  /\ last' = Op("MID76", B2N(alarmStatus), 0)
  /\ UNCHANGED <<cfgVars, wire, fed, decoded, linkVars, connVars, protoVars, controllerReady, toolVars, spinVars,
                 prodVars, jobActive, batch, tightVars, cmdVars, histVars>>

---------------------------------------------------------------------------
(* Interlocks *)

InterlockCodes == <<"NOT_CONNECTED", "LINK_NOT_READY", "TOOL_DISABLED",
                    "TOOL_RUNNING", "CTRL_NOT_READY", "ALARM_ACTIVE",
                    "VIN_REQUIRED", "JOB_NOT_ACTIVE">>

\* faulty variant of _check: CTRL_NOT_READY is tested before TOOL_DISABLED
checkReordered(cmd) ==
  IF ~connected THEN "NOT_CONNECTED"
  ELSE IF ~linkLayerReady THEN "LINK_NOT_READY"
  ELSE IF cmd = "startTightening"
  THEN IF ~controllerReady THEN "CTRL_NOT_READY"
       ELSE IF ~toolEnabled THEN "TOOL_DISABLED"
       ELSE IF toolRunning THEN "TOOL_RUNNING"
       ELSE IF errorActive THEN "ALARM_ACTIVE"
       ELSE IF vinRequired /\ ~vinValid THEN "VIN_REQUIRED"
       ELSE IF ~jobActive THEN "JOB_NOT_ACTIVE"
       ELSE "none"
  ELSE "none"

\* faulty variant of _check: the ALARM_ACTIVE test is left out
checkWithoutAlarm(cmd) ==
  IF ~connected THEN "NOT_CONNECTED"
  ELSE IF ~linkLayerReady THEN "LINK_NOT_READY"
  ELSE IF cmd = "startTightening"
  THEN IF ~toolEnabled THEN "TOOL_DISABLED"
       ELSE IF toolRunning THEN "TOOL_RUNNING"
       ELSE IF ~controllerReady THEN "CTRL_NOT_READY"
       ELSE IF vinRequired /\ ~vinValid THEN "VIN_REQUIRED"
       ELSE IF ~jobActive THEN "JOB_NOT_ACTIVE"
       ELSE "none"
  ELSE "none"

\* _check(cmd): the code of the InterlockError it throws, or "none"
check(cmd) ==
  IF ~connected THEN "NOT_CONNECTED"
  ELSE IF ~linkLayerReady THEN "LINK_NOT_READY"
  ELSE IF cmd = "startTightening"
  THEN IF ~toolEnabled THEN "TOOL_DISABLED"
       ELSE IF toolRunning THEN "TOOL_RUNNING"
       ELSE IF ~controllerReady THEN "CTRL_NOT_READY"
       ELSE IF errorActive THEN "ALARM_ACTIVE"
       ELSE IF vinRequired /\ ~vinValid THEN "VIN_REQUIRED"
       ELSE IF ~jobActive THEN "JOB_NOT_ACTIVE"
       ELSE "none"
  ELSE "none"

---------------------------------------------------------------------------
(* Public API *)

\* a call that sends one frame: the table, the output and the error it leaves
Sent(c, op, mid) ==
  /\ c.seq <= MaxCommandSeq
  /\ touchTraffic
  /\ wrote(c.wr)
  /\ pendingCommands' = c.pc
  /\ commandSeq' = c.seq
  /\ written' = c.wr
  /\ thrown' = c.err
  /\ emitted' = <<>>
  /\ last' = Op(op, mid, 0)

\* startTightening()
StartTightening ==
  /\ IF check("startTightening") # "none"
     THEN /\ thrown' = check("startTightening")
          /\ emitted' = <<>> /\ written' = <<>>
          /\ last' = Op("startTightening", 43, 0)
          /\ UNCHANGED <<cmdVars, timeVars>>
     ELSE Sent(sendMID(Cmd0, 43, TRUE), "startTightening", 43)
  /\ UNCHANGED <<cfgVars, wireVars, linkVars, buffer, connVars, protoVars, ctrlVars, toolVars, spinVars,
                 prodVars, jobActive, batch, tightVars, histVars>>

\* selectJob, selectParameterSet, enableTool, disableTool, decrementBatch,
\* acknowledgeAlarm: sendMID(mid, payload, true) and nothing else
SimpleCommands == {<<"selectJob", 34>>, <<"selectParameterSet", 18>>,
                   <<"enableTool", 42>>, <<"disableTool", 45>>,
                   <<"decrementBatch", 21>>, <<"acknowledgeAlarm", 78>>}

SimpleCommand(op, mid) ==
  /\ Sent(sendMID(Cmd0, mid, TRUE), op, mid)
  /\ UNCHANGED <<cfgVars, wireVars, linkVars, buffer, connVars, protoVars, ctrlVars, toolVars, spinVars,
                 prodVars, jobActive, batch, tightVars, histVars>>

\* downloadVIN(vin), vin of length len
DownloadVIN(len) ==
  /\ IF len > 25
     THEN /\ thrown' = "Error"
          /\ emitted' = <<>> /\ written' = <<>>
          /\ last' = Op("downloadVIN", 50, 0)
          /\ UNCHANGED <<cmdVars, timeVars>>
     ELSE Sent(sendMID(Cmd0, 50, TRUE), "downloadVIN", 50)
  /\ UNCHANGED <<cfgVars, wireVars, linkVars, buffer, connVars, protoVars, ctrlVars, toolVars, spinVars,
                 prodVars, jobActive, batch, tightVars, histVars>>

\* subscribeTighteningResults() and subscribeAlarms()
Subscribe(op, mid) ==
  LET c == sendMID(Cmd0, mid, TRUE)
  IN  /\ Sent(c, op, mid)
      /\ subscriptions' =
           IF c.err # "none" THEN subscriptions
           ELSE IF mid = 60 THEN [subscriptions EXCEPT !.tighteningResults = TRUE]
           ELSE [subscriptions EXCEPT !.alarms = TRUE]
      /\ UNCHANGED <<cfgVars, wireVars, linkVars, buffer, connVars, revision, ctrlVars, toolVars, spinVars,
                     prodVars, jobActive, batch, tightVars, histVars>>

\* unsubscribeTighteningResults() and unsubscribeAlarms()
Unsubscribe(op, mid) ==
  LET c == sendMID(Cmd0, mid, FALSE)
  IN  /\ Sent(c, op, mid)
      /\ subscriptions' =
           IF c.err # "none" THEN subscriptions
           ELSE IF mid = 63 THEN [subscriptions EXCEPT !.tighteningResults = FALSE]
           ELSE [subscriptions EXCEPT !.alarms = FALSE]
      /\ UNCHANGED <<cfgVars, wireVars, linkVars, buffer, connVars, revision, ctrlVars, toolVars, spinVars,
                     prodVars, jobActive, batch, tightVars, histVars>>

\* faulty variant of markReset: the counter is reset at once
markResetAtOnce(b) == [b EXCEPT !.pendingReset = TRUE, !.counter = 0, !.complete = FALSE]

\* what resetBatch() does to the batch block before it sends MID 0020
markReset(b) == [b EXCEPT !.pendingReset = TRUE]

\* resetBatch()
ResetBatch ==
  /\ batch' = markReset(batch)
  /\ Sent(sendMID(Cmd0, 20, TRUE), "resetBatch", 20)
  /\ UNCHANGED <<cfgVars, wireVars, linkVars, buffer, connVars, protoVars, ctrlVars, toolVars, spinVars,
                 prodVars, jobActive, tightVars, histVars>>

\* disconnect()
Disconnect ==
  /\ autoReconnect' = FALSE
  /\ reconnectTimer' = FALSE
  /\ IF socket # "null"
     THEN /\ written' = sendMID(Cmd0, 2, FALSE).wr
          /\ touchTraffic
          /\ wrote(sendMID(Cmd0, 2, FALSE).wr)
          /\ socket' = IF Alive(socket) THEN "destroyed" ELSE socket
     ELSE /\ written' = <<>>
          /\ UNCHANGED <<socket, timeVars>>
  \* destroy() emits no 'error': the promise is never rejected
  /\ socketBy' = "none"
  /\ stopped' = TRUE
  /\ emitted' = <<>> /\ thrown' = "none"
  /\ last' = Op("disconnect", 0, 0)
  /\ UNCHANGED <<configuredSpindleCount, allowDuplicateCommands, errorListener, wireVars, heartbeatTimer,
                 reconnectDelay, connected, linkLayerReady, reconnecting,
                 reconnectAttempts, buffer, others, rejected,
                 protoVars, ctrlVars, toolVars, spinVars,
                 prodVars, jobActive, batch, tightVars, cmdVars,
                 cycleCompleted, cycleIncomplete>>

---------------------------------------------------------------------------
(* Inputs *)

\* the spindleCount option of the constructor
Configs == {Null, Some(1)}

\* MID 0041 payloads: the four status characters
ToolStatus == [controllerReady : BOOLEAN, toolEnabled : BOOLEAN,
               toolRunning : BOOLEAN, alarmActive : BOOLEAN]

\* result frames whose header names spindle 1; 0 stands for a blank or
\* non-numeric spindle field of the payload
ResultFrames == [spindle : 0..MaxSpindle, ts : {"0", "1"}, as : {"0", "1"},
                 ov : {"0", "1"}, hdr : {1}]

\* Rev 1 result frames of every spindle: the payload has no spindle field
HeaderFrames == [spindle : {0}, ts : {"0", "1"}, as : {"1"}, ov : {"1"},
                 hdr : 1..MaxSpindle]

---------------------------------------------------------------------------
(* The tightening-cycle specification: connection, tool status, results,    *)
(* watchdog and spindle count.  Listeners do not throw.                     *)

InitCycle ==
  \E sc \in Configs : client(FALSE, sc, FALSE, TRUE)

CycleStatus == {d \in ToolStatus : d.controllerReady /\ d.toolEnabled /\ ~d.alarmActive}
CycleFrames == {p \in ResultFrames : p.as = "1" /\ p.ov = "1"}

NextCycle ==
  \/ Connect
  \/ OnConnect
  \/ OnClose
  \/ OnError
  \/ \E d \in CycleStatus : RcvMID41(d)
  \/ \E mid \in {61, 65}, p \in CycleFrames : RcvResult(mid, p)
  \/ WatchdogFire
  \/ \E count \in 0..MaxSpindle : SetSpindleCount(count)
  \/ \E count \in 0..MaxSpindle : RcvMID101(count)

SpecCycle == InitCycle /\ [][NextCycle]_vars

\* The watchdog is a setTimeout: once armed and not cleared, it fires.
FairSpecCycle == SpecCycle /\ WF_vars(WatchdogFire)

---------------------------------------------------------------------------
(* The result-acknowledgement specification: the tightening cycle with a    *)
(* batch, and listeners that may throw from inside _handleTighteningResult. *)

InitAck == \E sc \in Configs : client(FALSE, sc, FALSE, TRUE)

AckFrames == {p \in ResultFrames : p.ts = "1" /\ p.as = "1" /\ p.ov = "1"}

NextAck ==
  \/ Connect
  \/ OnConnect
  \/ OnClose
  \/ OnError
  \/ \E d \in CycleStatus : RcvMID41(d)
  \/ \E mid \in {61, 65}, p \in AckFrames : RcvResult(mid, p)
  \/ \E mid \in {61, 65}, p \in AckFrames, throwAt \in EmitPoints :
       batch.counter <= MaxBatch /\ RcvResultThrows(mid, p, throwAt)
  \/ WatchdogFire
  \/ RcvMID51("VIN")
  \/ \E size \in 1..MaxBatch : RcvMID31(size, 0)

SpecAck == InitAck /\ [][NextAck]_vars

---------------------------------------------------------------------------
(* The command specification: every operator command but startTightening,  *)
(* and the resolution of pending commands by MID 0004 / MID 0005 / timeout  *)
(* / disconnect.                                                            *)

InitCmd == \E dup \in BOOLEAN : client(FALSE, Null, dup, TRUE)

\* the MIDs the controller acknowledges or rejects
AckMids == {34, 60}

NextCmd ==
  \/ Connect
  \/ OnConnect
  \/ OnClose
  \/ OnError
  \/ RcvMID2or3(1)
  \/ \E mid \in AckMids : RcvMID4(mid)
  \/ \E mid \in AckMids : RcvMID5(mid)
  \/ \E cmdId \in 1..MaxCommandSeq : CommandTimeout(cmdId)
  \/ \E c \in SimpleCommands : SimpleCommand(c[1], c[2])
  \/ \E len \in {17, 26} : DownloadVIN(len)
  \/ Subscribe("subscribeTighteningResults", 60)
  \/ Subscribe("subscribeAlarms", 70)
  \/ Unsubscribe("unsubscribeTighteningResults", 63)
  \/ Unsubscribe("unsubscribeAlarms", 73)

SpecCmd == InitCmd /\ [][NextCmd]_vars

---------------------------------------------------------------------------
(* The pending-table specification: sendMID's one-per-MID test.  Every      *)
(* command reaches the table through sendMID, so three of them, the         *)
(* handshake's own two subscriptions and everything that removes entries    *)
(* are enough.                                                              *)

DupCommands == {<<"selectJob", 34>>, <<"enableTool", 42>>}

NextDup ==
  \/ Connect
  \/ OnConnect
  \/ OnClose
  \/ OnError
  \/ RcvMID2or3(1)
  \/ RcvMID11(1)
  \/ \E mid \in AckMids : RcvMID4(mid)
  \/ \E mid \in AckMids : RcvMID5(mid)
  \/ \E cmdId \in 1..MaxCommandSeq : CommandTimeout(cmdId)
  \/ \E c \in DupCommands : SimpleCommand(c[1], c[2])
  \/ Subscribe("subscribeTighteningResults", 60)

SpecDup == InitCmd /\ [][NextDup]_vars

\* the 5 s timer of a pending command fires unless it is cleared
FairSpecDup == SpecDup /\ \A cmdId \in 1..MaxCommandSeq : WF_vars(CommandTimeout(cmdId))

---------------------------------------------------------------------------
(* The batch specification: the batch block, resetBatch and what answers it *)

InitBatch == client(FALSE, Null, FALSE, TRUE)

\* the MIDs the controller acknowledges or rejects
BatchAckMids == {20, 34}

\* one result payload, of spindle 1
OkFrame == [spindle |-> 1, ts |-> "1", as |-> "1", ov |-> "1", hdr |-> 1]

NextBatch ==
  \/ Connect
  \/ OnConnect
  \/ OnClose
  \/ OnError
  \/ \E mid \in BatchAckMids : RcvMID4(mid)
  \/ \E mid \in BatchAckMids : RcvMID5(mid)
  \/ \E cmdId \in 1..MaxCommandSeq : CommandTimeout(cmdId)
  \/ SimpleCommand("selectJob", 34)
  \/ ResetBatch
  \/ \E size \in 1..MaxBatch, counter \in 0..MaxBatch : RcvMID31(size, counter)
  \/ \E counter \in 0..MaxBatch : RcvMID21(counter)
  \/ RcvResult(61, OkFrame)
  \/ \E throwAt \in {"batchProgress", "batchCompleted"} :
       batch.counter <= MaxBatch /\ RcvResultThrows(61, OkFrame, throwAt)

SpecBatch == InitBatch /\ [][NextBatch]_vars

---------------------------------------------------------------------------
(* The batch specification restricted to a controller whose reports are     *)
(* consistent: every counter it reports is within the batch size.           *)

NextBatchInRange ==
  \/ Connect
  \/ OnConnect
  \/ OnClose
  \/ OnError
  \/ RcvMID5(20)
  \/ ResetBatch
  \/ \E cmdId \in 1..MaxCommandSeq : CommandTimeout(cmdId)
  \/ \E size \in 1..MaxBatch, counter \in 0..MaxBatch :
       counter <= size /\ RcvMID31(size, counter)
  \/ \E counter \in 0..MaxBatch :
       batch.size # Null /\ counter <= Val(batch.size) /\ RcvMID21(counter)
  \/ RcvResult(61, OkFrame)

SpecBatchInRange == InitBatch /\ [][NextBatchInRange]_vars

---------------------------------------------------------------------------
(* The VIN specification: everything that reads or writes the product       *)
(* block, and the operations around it.                                     *)

InitVin == \E sc \in Configs : client(FALSE, sc, FALSE, TRUE)

NextVin ==
  \/ Connect
  \/ OnConnect
  \/ OnClose
  \/ OnError
  \/ \E v \in {"VIN", ""} : RcvMID51(v)
  \/ RcvMID52
  \/ RcvMID35
  \/ RcvMID31(1, 0)
  \/ RcvMID5(50)
  \/ DownloadVIN(17)
  \/ \E cmdId \in 1..MaxCommandSeq : CommandTimeout(cmdId)
  \/ \E d \in CycleStatus : RcvMID41(d)
  \/ WatchdogFire
  \/ \E mid \in {61, 65} : RcvResult(mid, OkFrame)
  \/ \E mid \in {61, 65} : RcvResultThrows(mid, OkFrame, "vinLocked")

SpecVin == InitVin /\ [][NextVin]_vars

---------------------------------------------------------------------------
(* The interlock specification: everything the gate of startTightening      *)
(* reads, and startTightening.                                              *)

InitInterlock == client(FALSE, Null, FALSE, TRUE)

NextInterlock ==
  \/ Connect
  \/ OnConnect
  \/ OnClose
  \/ OnError
  \/ RcvMID2or3(1)
  \/ \E d \in ToolStatus : RcvMID41(d)
  \/ WatchdogFire
  \/ RcvMID35
  \/ RcvMID51("VIN")
  \/ RcvMID52
  \/ RcvMID70(1)
  \/ \E st \in BOOLEAN : RcvMID76(st)
  \/ RcvMID5(43)
  \/ StartTightening
  \/ \E cmdId \in 1..MaxCommandSeq : CommandTimeout(cmdId)

SpecInterlock == InitInterlock /\ [][NextInterlock]_vars

---------------------------------------------------------------------------
(* The reconnect specification: connect() calls of the user and of the      *)
(* reconnect timer, every socket's events, the answer to MID 0001 and       *)
(* disconnect().  While a rejection waits for its catch handler nothing     *)
(* else runs: the handler is a microtask.                                   *)

InitReconnect == \E ar \in BOOLEAN, listens \in BOOLEAN : client(ar, Null, FALSE, listens)

NextReconnect ==
  \/ ReconnectCatch
  \/ ~rejected /\ Connect
  \/ ~rejected /\ ConnectAgain
  \/ ~rejected /\ ConnectWhileConnected
  \/ ~rejected /\ OnConnect
  \/ ~rejected /\ \E i \in 1..MaxOthers : OtherConnect(i)
  \/ ~rejected /\ OnError
  \/ ~rejected /\ \E i \in 1..MaxOthers : OtherError(i)
  \/ ~rejected /\ OnClose
  \/ ~rejected /\ \E i \in 1..MaxOthers : OtherClose(i)
  \/ ~rejected /\ ReconnectFire
  \/ ~rejected /\ Disconnect
  \/ ~rejected /\ RcvMID2or3(1)
  \/ ~rejected /\ \E cmdId \in 1..MaxCommandSeq : CommandTimeout(cmdId)

SpecReconnect == InitReconnect /\ [][NextReconnect]_vars

---------------------------------------------------------------------------
(* The close specification: what a close has to clear (a pending command,   *)
(* the heartbeat, a watchdog, a buffered fragment, the link), on the        *)
(* sockets of the user's connect() calls and of the reconnect timer, with   *)
(* auto_reconnect on or off.  The command, watchdog and reconnect timers    *)
(* may fire before a close.  disconnect() and a connect() called during an  *)
(* earlier attempt are in the reconnect specification.                      *)

InitClose == \E ar \in BOOLEAN : client(ar, Null, FALSE, TRUE)

\* data events that leave an incomplete frame in the buffer
Fragments == {<<"0", "NUL", "0">>}

\* the MID 0041 status that starts a cycle
Running == [controllerReady |-> TRUE, toolEnabled |-> TRUE,
            toolRunning |-> TRUE, alarmActive |-> FALSE]

NextClose ==
  \/ ReconnectCatch
  \/ ~rejected /\ Connect
  \/ ~rejected /\ OnConnect
  \/ ~rejected /\ \E i \in 1..MaxOthers : OtherConnect(i)
  \/ ~rejected /\ OnError
  \/ ~rejected /\ \E i \in 1..MaxOthers : OtherError(i)
  \/ ~rejected /\ OnClose
  \/ ~rejected /\ \E i \in 1..MaxOthers : OtherClose(i)
  \/ ~rejected /\ reconnectAttempts <= MaxRetries /\ ReconnectFire
  \/ ~rejected /\ \E data \in Fragments : RcvFragment(data)
  \/ ~rejected /\ RcvMID2or3(1)
  \/ ~rejected /\ \E cmdId \in 1..MaxCommandSeq : CommandTimeout(cmdId)
  \/ ~rejected /\ RcvMID41(Running)
  \/ ~rejected /\ WatchdogFire

SpecClose == InitClose /\ [][NextClose]_vars

---------------------------------------------------------------------------
(* Claims about the tightening cycle *)

\* C1: between one tighteningCycleStarted and the next, tighteningCycleCompleted
\* and tighteningIncomplete are never both emitted.
C1_NeverBothCompletions == ~(cycleCompleted > 0 /\ cycleIncomplete > 0)

\* C2: every cycle that is started is eventually ended: in_progress never
\* stays true forever.
C2_EveryCycleEnds == inProgress ~> ~inProgress


\* C3: every decoded MID 0061 / MID 0065 makes the client write exactly one
\* MID 0062, flagged no-ACK, also when a listener throws during aggregation;
\* the pending-command table and the command sequence are left alone.
C3_ResultAlwaysAcked ==
  [][last'.op \in {"MID61", "MID65"} =>
       /\ written' = <<[mid |-> 62, noAck |-> TRUE]>>
       /\ pendingCommands' = pendingCommands
       /\ commandSeq' = commandSeq]_vars

\* a result whose aggregation threw, acknowledged
C3_Witness ==
  /\ last.op = "MID61" /\ last.m = 1
  /\ "parseError" \in Names(emitted)
  /\ CountMid(written, 62) = 1

---------------------------------------------------------------------------
(* Claims about commands *)

OnePerMID(pc) == \A a, b \in DOMAIN pc : pc[a] = pc[b] => a = b

\* the calls of the pending-table specification that send a command with
\* ACK expected; last.n is the MID of the call
CommandCalls == {c[1] : c \in DupCommands} \cup {"subscribeTighteningResults"}

\* C4: without allowDuplicateCommands the pending table holds at most one entry
\* per MID; a command whose MID has a pending entry fails with a CommandError,
\* writes nothing and adds no entry; a command whose MID has none is written
\* to the socket and gets the entry, so that two calls with the same MID
\* and nothing between them make one socket write and one CommandError.
C4_OnePendingPerMID ==
  [][~allowDuplicateCommands =>
       /\ OnePerMID(pendingCommands')
       /\ thrown' = "CommandError" =>
            /\ written' = <<>>
            /\ pendingCommands' = pendingCommands
            /\ commandSeq' = commandSeq
       /\ last'.op \in CommandCalls =>
            IF hasPending(pendingCommands, last'.n)
            THEN thrown' = "CommandError"
            ELSE /\ Len(written') = 1
                 /\ hasPending(pendingCommands', last'.n)]_vars

\* the interlock rules of startTightening, in the order of the table
RuleHolds(i) ==
  CASE i = 1 -> connected
    [] i = 2 -> linkLayerReady
    [] i = 3 -> toolEnabled
    [] i = 4 -> ~toolRunning
    [] i = 5 -> controllerReady
    [] i = 6 -> ~errorActive
    [] i = 7 -> ~vinRequired \/ vinValid
    [] i = 8 -> jobActive

ViolatedRules == {i \in 1..8 : ~RuleHolds(i)}
LowestViolated == CHOOSE i \in ViolatedRules : \A j \in ViolatedRules : i <= j
CodeSet == {InterlockCodes[i] : i \in 1..8}

\* C5: startTightening() fails with the code of the lowest-numbered violated
\* rule, whichever other rules are violated too (and with no interlock code
\* when none is).
C5_LowestViolatedRuleWins ==
  [][last'.op = "startTightening" =>
       IF ViolatedRules # {}
       THEN thrown' = InterlockCodes[LowestViolated]
       ELSE thrown' \notin CodeSet]_vars

\* rejected as TOOL_RUNNING with rules 5, 6 and 8 violated as well
C5_Witness ==
  /\ last.op = "startTightening" /\ thrown = "TOOL_RUNNING"
  /\ ~controllerReady /\ errorActive /\ ~jobActive

\* C6: MID 0043 is written only by startTightening and only when all eight
\* rules hold; a rejected startTightening writes nothing and adds no entry.
C6_StartOnlyWhenAllRulesHold ==
  [][/\ 43 \in Mids(written') =>
          last'.op = "startTightening" /\ ViolatedRules = {}
     /\ (last'.op = "startTightening" /\ thrown' \in CodeSet) =>
          /\ written' = <<>>
          /\ pendingCommands' = pendingCommands
          /\ commandSeq' = commandSeq]_vars

\* a start that passed the gate
C6_Witness ==
  /\ last.op = "startTightening" /\ thrown = "none"
  /\ 43 \in Mids(written)
  /\ hasPending(pendingCommands, 43)

OtherCommands == {"selectJob", "downloadVIN", "selectParameterSet", "enableTool",
                  "disableTool", "resetBatch", "decrementBatch",
                  "subscribeTighteningResults", "unsubscribeTighteningResults",
                  "subscribeAlarms", "unsubscribeAlarms", "acknowledgeAlarm"}

\* C7: a command other than startTightening called while connected or
\* link_ready is false fails with NOT_CONNECTED or LINK_NOT_READY and writes
\* nothing.
C7_OtherCommandsNeedLink ==
  (last.op \in OtherCommands /\ (~connected \/ ~linkLayerReady)) =>
    (thrown \in {"NOT_CONNECTED", "LINK_NOT_READY"} /\ written = <<>>)

\* C8: with source config or manual no MID 0101 / 0061 / 0065 changes the
\* spindle count or its source; with source default a MID 0101 with count > 0
\* is adopted as mid101 and a result whose spindle exceeds the count is adopted
\* as mid061.
C8_SpindleCountAuthority ==
  [][/\ (last'.op \in {"MID101", "MID61", "MID65"}
           /\ spindleCountSource \in {"config", "manual"}) =>
          UNCHANGED <<spindleCount, spindleCountSource>>
     /\ (last'.op = "MID101" /\ spindleCountSource = "default" /\ last'.n > 0) =>
          (spindleCount' = last'.n /\ spindleCountSource' = "mid101")
     /\ (last'.op \in {"MID61", "MID65"} /\ spindleCountSource = "default"
           /\ last'.n > spindleCount) =>
          (spindleCount' = last'.n /\ spindleCountSource' = "mid061")]_vars

\* a result of a spindle beyond a configured or manual count, which stays
C8_Witness ==
  /\ last.op = "MID65" /\ last.n > spindleCount
  /\ spindleCountSource \in {"config", "manual"}

---------------------------------------------------------------------------
(* Claims about the batch reset *)

ResetConfirmed == Count(emitted, "batchResetConfirmed")

\* the step is a MID 0005 for MID 0020 received while pending_reset is true
ResetAcked == last'.op = "MID5" /\ last'.n = 20 /\ batch.pendingReset

\* the step sets a counter above 0 to 0, or clears complete
ResetsBatch ==
  \/ batch.counter # 0 /\ batch'.counter = 0
  \/ batch.complete /\ ~batch'.complete

\* what resetBatch() and the MID 0005 that confirms it do to the batch
ResetProtocol ==
  /\ last'.op = "resetBatch" =>
       (batch'.counter = batch.counter /\ batch'.complete = batch.complete)
  /\ ResetAcked =>
       /\ batch'.counter = 0 /\ ~batch'.complete /\ ~batch'.pendingReset
       /\ ResetConfirmed' = 1
  /\ ~ResetAcked => ResetConfirmed' = 0

\* the controller's reports of the batch: MID 0021 and MID 0031 overwrite
\* the counter, MID 0031 clears complete
BatchReports == {"MID21", "MID31"}

\* C9 as claimed: resetBatch() leaves batch.counter and batch.complete as
\* they are; they are set to 0 and false only by a MID 0005 for MID 0020
\* received while pending_reset is true, which clears pending_reset and
\* emits batchResetConfirmed exactly once.
C9_OnlyTheAckResets ==
  [][ResetProtocol /\ (ResetsBatch => ResetAcked)]_vars

\* C9, amended: resetBatch() leaves batch.counter and batch.complete as they
\* are; a MID 0005 for MID 0020 received while pending_reset is true sets
\* them to 0 and false, clears pending_reset and emits batchResetConfirmed
\* once, and no other step emits it; apart from that MID 0005, only the
\* controller's MID 0021 and MID 0031 set the counter to 0 or clear complete,
\* and only they and a tightening result change counter or complete at all.
C9_ResetOnlyOnAck ==
  [][/\ ResetProtocol
     /\ ResetsBatch => (ResetAcked \/ last'.op \in BatchReports)
     /\ (batch'.counter # batch.counter \/ batch'.complete # batch.complete) =>
          (ResetAcked \/ last'.op \in BatchReports \cup {"MID61", "MID65"})]_vars

\* a completed batch with a counter above 0, reset by the ACK
C9_Witness ==
  /\ last.op = "MID5" /\ last.n = 20 /\ last.m > 0
  /\ ResetConfirmed = 1
  /\ batch.counter = 0 /\ ~batch.complete /\ ~batch.pendingReset

\* C10: batchResetFailed is emitted, and pending_reset cleared, by a MID 0004
\* only when its failed_mid is 0020 and a reset is pending, leaving the counter
\* alone; a MID 0004 for another command neither emits batchResetFailed nor
\* clears pending_reset.
C10_ResetFailedOnlyFor20 ==
  [][last'.op = "MID4" =>
       /\ "batchResetFailed" \in Names(emitted') =>
            (last'.n = 20 /\ batch.pendingReset /\ batch'.counter = batch.counter)
       /\ last'.n # 20 => batch'.pendingReset = batch.pendingReset]_vars


---------------------------------------------------------------------------
(* Claims about the state invariants *)

\* C11: whenever batch.size is known, batch.counter <= batch.size.
C11_CounterWithinSize == batch.size # Null => batch.counter <= Val(batch.size)

\* C12: batch.complete implies not batch.active.
C12_CompleteNotActive == batch.complete => ~batch.active

\* a batch completed by a result
C12_Witness ==
  /\ last.op = "MID61"
  /\ "batchCompleted" \in Names(emitted)
  /\ batch.complete /\ ~batch.active

\* C13: tightening.in_progress is true if and only if a watchdog is armed and
\* at most tool.spindle_count results are pending.
C13_InProgressIffWatchdog ==
  inProgress <=>
    (watchdog = "armed" /\ Cardinality(DOMAIN pendingSpindles) <= spindleCount)

\* C14: when a cycle starts (tighteningCycleStarted is emitted),
\* tightening.pending_spindles is empty.
C14_StartsWithNoResults ==
  "tighteningCycleStarted" \in Names(emitted) => pendingSpindles = <<>>

\* C15: product.vin_locked turns true only while a MID 0061 / 0065 is processed
\* with a non-empty product.vin, emitting vinLocked once, and turns false only
\* on MID 0035 or MID 0031; vinLocked is emitted by no other step.
C15_VinLockTransitions ==
  [][/\ (~vinLocked /\ vinLocked') =>
          /\ last'.op \in {"MID61", "MID65"}
          /\ Truthy(vin)
          /\ Count(emitted', "vinLocked") = 1
     /\ (vinLocked /\ ~vinLocked') => last'.op \in {"MID35", "MID31"}
     /\ Count(emitted', "vinLocked") > 0 => (~vinLocked /\ vinLocked')]_vars

\* the VIN locked by a result
C15_Witness ==
  /\ last.op \in {"MID61", "MID65"}
  /\ vinLocked /\ Truthy(vin)
  /\ Count(emitted, "vinLocked") = 1


---------------------------------------------------------------------------
(* Claims about the life of a pending command *)

Outcomes == {"commandSuccess", "commandFailed", "commandTimeout", "commandAborted"}

\* the terminal outcome events of command id in evs
OutcomesFor(evs, id) == {i \in DOMAIN evs : evs[i].name \in Outcomes /\ evs[i].n2 = id}

\* the outcome event a step of kind op emits for a command of MID n
OutcomeOf(op) ==
  CASE op = "MID5" -> "commandSuccess"
    [] op = "MID4" -> "commandFailed"
    [] op = "commandTimeout" -> "commandTimeout"
    [] op = "onClose" -> "commandAborted"
    [] OTHER -> "none"

Removed(id) == id \in DOMAIN pendingCommands /\ id \notin DOMAIN pendingCommands'

\* C16 (safety part): every command id taken gets a pending entry; an entry
\* leaves the table in a step that emits exactly one outcome event for it, of
\* the kind of that step (a MID 0005 / MID 0004 naming its MID, its timeout, a
\* close); no outcome event is emitted for an id that does not leave the table
\* in that step, and an id never enters the table twice.
C16_OneOutcomeStep ==
  /\ \A id \in (commandSeq + 1)..commandSeq' : id \in DOMAIN pendingCommands'
  /\ \A id \in DOMAIN pendingCommands' \ DOMAIN pendingCommands : id > commandSeq
  /\ \A id \in 1..commandSeq :
       IF Removed(id)
       THEN /\ Cardinality(OutcomesFor(emitted', id)) = 1
            /\ \A i \in OutcomesFor(emitted', id) :
                 /\ emitted'[i].name = OutcomeOf(last'.op)
                 /\ emitted'[i].n1 = pendingCommands[id]
            /\ last'.op \in {"MID4", "MID5"} => last'.n = pendingCommands[id]
            /\ last'.op = "commandTimeout" => last'.n = id
       ELSE OutcomesFor(emitted', id) = {}

\* C16: every command sent with ACK expected gets a pending entry that is
\* eventually removed, by exactly one terminal outcome, after which no outcome
\* event is emitted for its command id.
C16_PendingEndsOnce ==
  /\ [][C16_OneOutcomeStep]_vars
  /\ \A id \in 1..MaxCommandSeq :
       (id \in DOMAIN pendingCommands) ~> (id \notin DOMAIN pendingCommands)

\* the first of two pending commands timed out, the second still pending
C16_Witness ==
  /\ last.op = "commandTimeout" /\ last.n = 1
  /\ Cardinality(OutcomesFor(emitted, 1)) = 1
  /\ DOMAIN pendingCommands = {2}

---------------------------------------------------------------------------
(* Claims about closing and reconnecting *)

Aborted(evs, id) == {i \in DOMAIN evs : evs[i].name = "commandAborted" /\ evs[i].n2 = id}

\* what the step that processes a socket close clears and emits
CloseCleared ==
  /\ ~connected' /\ ~linkLayerReady'
  /\ buffer' = <<>>
  /\ pendingCommands' = <<>>
  /\ \A id \in DOMAIN pendingCommands :
       /\ Cardinality(Aborted(emitted', id)) = 1
       /\ \A i \in Aborted(emitted', id) : emitted'[i].n1 = pendingCommands[id]
  /\ Count(emitted', "commandAborted") = Cardinality(DOMAIN pendingCommands)
  /\ ~heartbeatTimer'
  /\ watchdog' # "armed"
  /\ Count(emitted', "disconnected") = 1

\* C17 as claimed: after a socket close has been processed connected and
\* link_ready are false, the decode buffer and the pending-command table are
\* empty with one commandAborted per entry that was pending, no heartbeat,
\* watchdog or command timer is armed, disconnected has been emitted, and a
\* reconnect is scheduled if and only if auto_reconnect is true and the
\* client was connected before the close.
C17_ScheduledIffConnected ==
  [][last'.op = "onClose" =>
       /\ CloseCleared
       /\ reconnectTimer' <=> (autoReconnect /\ connected)]_vars

\* C17, amended: the step that processes a socket close leaves connected and
\* link_ready false, the decode buffer and the pending-command table empty
\* with one commandAborted per entry that was pending, no heartbeat, watchdog
\* or command timer armed, and emits disconnected; it schedules a reconnect
\* (one reconnecting event, the timer armed) if and only if auto_reconnect is
\* true and the client was connected before; otherwise it emits no
\* reconnecting event and leaves the reconnect timer as it was.
C17_CloseClears ==
  [][last'.op = "onClose" =>
       /\ CloseCleared
       /\ IF autoReconnect /\ connected
          THEN Count(emitted', "reconnecting") = 1 /\ reconnectTimer'
          ELSE /\ Count(emitted', "reconnecting") = 0
               /\ reconnectTimer' = reconnectTimer]_vars

\* a close that aborted two commands and scheduled a reconnect
C17_Witness ==
  /\ last.op = "onClose"
  /\ Count(emitted, "commandAborted") = 2
  /\ Count(emitted, "reconnecting") = 1
  /\ reconnectTimer /\ ~connected /\ buffer = <<>>

RECURSIVE Pow2(_)
Pow2(k) == IF k = 0 THEN 1 ELSE 2 * Pow2(k - 1)

\* min(1000 * 2^(k-1), 30000)
ExpectedDelay(k) == IF 1000 * Pow2(k - 1) < 30000 THEN 1000 * Pow2(k - 1) ELSE 30000

\* C18: with auto_reconnect on, each reconnecting event carries attempt = the
\* attempt counter raised by one and delay = min(1000 * 2^(attempt-1), 30000);
\* the counter changes in no other way but a successful connection, which sets
\* it to 0 and the delay to 1000.
C18_Backoff ==
  [][/\ \A i \in DOMAIN emitted' :
          (autoReconnect' /\ emitted'[i].name = "reconnecting") =>
            /\ emitted'[i].n1 = reconnectAttempts + 1
            /\ reconnectAttempts' = reconnectAttempts + 1
            /\ emitted'[i].n2 = ExpectedDelay(emitted'[i].n1)
     /\ Count(emitted', "reconnecting") <= 1
     /\ last'.op = "onConnect" => (reconnectAttempts' = 0 /\ reconnectDelay' = 1000)
     /\ reconnectAttempts' # reconnectAttempts =>
          (Count(emitted', "reconnecting") = 1 \/ last'.op = "onConnect")]_vars

\* the sixth attempt in a row, at the cap
C18_Witness ==
  \E i \in DOMAIN emitted :
    /\ emitted[i].name = "reconnecting"
    /\ emitted[i].n1 = 6 /\ emitted[i].n2 = 30000

\* C19: after disconnect(), until the user calls connect(), no reconnecting
\* event is emitted, no reconnect timer is armed and the timer starts no
\* connection attempt.
C19_DisconnectStopsReconnect ==
  stopped =>
    /\ "reconnecting" \notin Names(emitted)
    /\ ~reconnectTimer
    /\ ~(last.op = "reconnectFire" /\ last.n = 1)

---------------------------------------------------------------------------
(* Claims about the handshake *)

\* C20: every MID 0002 / MID 0003 records the revision, sets link_ready, emits
\* linkEstablished and makes the client write both a MID 0060 and a MID 0070,
\* whatever commands are pending.
C20_HandshakeSubscribes ==
  [][last'.op = "MID3" =>
       /\ revision' = last'.n
       /\ linkLayerReady'
       /\ "linkEstablished" \in Names(emitted')
       /\ 60 \in Mids(written') /\ 70 \in Mids(written')]_vars

---------------------------------------------------------------------------
(* The header specification: MID 0061 results of every spindle, sent by a    *)
(* multi-spindle controller at revision 1 or 2.                             *)

InitHeader == \E sc \in Configs : client(FALSE, sc, FALSE, TRUE)

NextHeader ==
  \/ Connect
  \/ OnConnect
  \/ OnClose
  \/ OnError
  \/ \E rev \in {1, 2} : RcvMID2or3(rev)
  \/ \E cmdId \in 1..MaxCommandSeq : CommandTimeout(cmdId)
  \/ \E d \in CycleStatus : RcvMID41(d)
  \/ \E p \in HeaderFrames : RcvResult(61, p)
  \/ WatchdogFire

SpecHeader == InitHeader /\ [][NextHeader]_vars

---------------------------------------------------------------------------
(* The revision-4 specification: MID 0061 results with every combination of *)
(* status characters, at revision 1 or 4.                                   *)

StatusFrames == [spindle : {1}, ts : {"0", "1"}, as : {"0", "1"}, ov : {"0", "1"},
                 hdr : {1}]

NextStatus ==
  \/ Connect
  \/ OnConnect
  \/ OnClose
  \/ OnError
  \/ \E rev \in {1, 4} : RcvMID2or3(rev)
  \/ \E cmdId \in 1..MaxCommandSeq : CommandTimeout(cmdId)
  \/ \E d \in CycleStatus : RcvMID41(d)
  \/ \E p \in StatusFrames : RcvResult(61, p)
  \/ WatchdogFire

SpecStatus == InitHeader /\ [][NextStatus]_vars

---------------------------------------------------------------------------
(* The heartbeat specification: the passing of time, the keep-alive        *)
(* interval, traffic in both directions, commands sent, rejected and timed *)
(* out after COMMAND_TIMEOUT_MS, and connections made by the user, closed  *)
(* by disconnect() and lost.  Frames, calls and connections fall on a      *)
(* callback of the interval or between two callbacks.  auto_reconnect is   *)
(* off: the reconnect timer connects through the same connect() and        *)
(* callback.                                                               *)

InitHeartbeat == client(FALSE, Null, FALSE, TRUE)

\* the times in milliseconds after which something happens between two
\* callbacks of the heartbeat interval
Offsets == {300, 900}

NextHeartbeat ==
  \/ Connect
  \/ OnConnect
  \/ OnError
  \/ OnClose
  \/ Disconnect
  \/ HeartbeatTick
  \/ \E d \in Offsets \cup {untilDue} : TimePasses(d)
  \/ RcvMID52
  \/ SimpleCommand("selectJob", 34)
  \/ \E cmdId \in 1..MaxCommandSeq : due(cmdId) /\ CommandTimeout(cmdId)

SpecHeartbeat == InitHeartbeat /\ [][NextHeartbeat]_vars

---------------------------------------------------------------------------
(* The batch-progress specification: tightening cycles of one or more       *)
(* spindles, with OK and NOK results, while batches start and listeners     *)
(* throw.                                                                   *)

NextProgress ==
  \/ Connect
  \/ OnConnect
  \/ OnClose
  \/ OnError
  \/ \E d \in CycleStatus : RcvMID41(d)
  \/ \E mid \in {61, 65}, p \in CycleFrames : RcvResult(mid, p)
  \/ \E mid \in {61, 65}, p \in CycleFrames, throwAt \in EmitPoints :
       batch.counter <= MaxBatch /\ RcvResultThrows(mid, p, throwAt)
  \/ WatchdogFire
  \/ \E size \in 1..MaxBatch, counter \in 0..MaxBatch : RcvMID31(size, counter)

SpecProgress == InitBatch /\ [][NextProgress]_vars

---------------------------------------------------------------------------
(* The decoder specification: the peer sends garbage bytes followed by one  *)
(* valid frame, which the socket delivers in chunks of any size.            *)

\* the bytes garbage is made of: a non-digit, digits, a NUL terminator
GarbageBytes == {"x", "9", "0", "NUL"}

Garbage == UNION {[1..n -> GarbageBytes] : n \in 0..MaxGarbage}

\* a frame of 20 bytes: length, MID, revision, no-ACK flag, station, spindle,
\* spare; no payload
frameOf(mid, noAck) ==
  <<"0", "0", "2", "0">> \o mid \o <<"0", "0", "1", noAck, "0", "1", "0", "1",
                                     " ", " ", " ", " ">>

\* valid frames of MIDs _handleMID has no case for: keep-alive, tool data
ValidFrames == {frameOf(<<"9", "9", "9", "9">>, "1"), frameOf(<<"0", "0", "4", "0">>, "0")}

InitDecode == client(FALSE, Null, FALSE, TRUE)

NextDecode ==
  \/ Connect
  \/ OnConnect
  \/ \E g \in Garbage, f \in ValidFrames : PeerSends(g \o f)
  \/ \E k \in 1..(MaxGarbage + 20) : OnData(k)

SpecDecode == InitDecode /\ [][NextDecode]_vars

---------------------------------------------------------------------------
(* C21: stateChanged per decoded frame *)

\* the handlers of decoded inbound frames, as last.op names them
FrameOps == {"MID3", "MID4", "MID5", "MID11", "MID21", "MID31", "MID35", "MID41", "MID51",
             "MID52", "MID61", "MID65", "MID70", "MID76", "MID101"}

\* C21: the handler of every decoded inbound frame emits exactly one
\* stateChanged event, and emits it last, after the state changes and the
\* other events of that frame.
C21_OneStateChangedPerFrame ==
  [][last'.op \in FrameOps =>
       /\ Count(emitted', "stateChanged") = 1
       /\ emitted'[Len(emitted')].name = "stateChanged"]_vars

---------------------------------------------------------------------------
(* C22: the spindle of a Rev 1 result *)

\* C22: at revision 1 the spindle number of a decoded MID 0061 result, under
\* which the result is stored in pending_spindles, equals the spindle field of
\* the frame's header.
C22_Rev1SpindleFromHeader ==
  [][(last'.op = "MID61" /\ revision = 1) => last'.n = last'.h]_vars

---------------------------------------------------------------------------
(* C23: resynchronisation of the decoder *)

\* the garbage bytes of the stream: all but its last 20 bytes
GarbageLen == Len(wire) - 20

\* C23: once garbage followed by one valid frame has been fed to the decoder,
\* exactly one frame has been decoded, it is the valid frame, and at most one
\* frameError per garbage byte has been emitted.
C23_ResyncRecoversFrame ==
  (wire # <<>> /\ fed = Len(wire)) =>
     /\ decoded = <<slice(wire, GarbageLen + 4, Len(wire))>>
     /\ frameErrors <= GarbageLen

\* what the decoder does keep: a frameError drops one byte and a frame its
\* length, and no more frameErrors than garbage bytes are emitted
ResyncAccounting ==
  /\ frameErrors <= GarbageLen \/ wire = <<>>
  /\ wire # <<>> =>
        Len(buffer) + frameErrors + 20 * Len(decoded)
          = Len(stripNul(SubSeq(wire, 1, fed)))

---------------------------------------------------------------------------
(* C24: duplicates are resolved oldest first *)

\* the pending entries for MID mid
SameMid(mid) == {id \in DOMAIN pendingCommands : pendingCommands[id] = mid}

Oldest(S) == CHOOSE id \in S : \A o \in S : id <= o

\* C24: with allow_duplicate_commands set, an inbound MID 0005 or MID 0004
\* for a MID with pending entries removes exactly the entry with the smallest
\* command id, reports that id in its one commandSuccess / commandFailed
\* event, and leaves every other entry pending.
C24_OldestDuplicateFirst ==
  [][(last'.op \in {"MID4", "MID5"} /\ allowDuplicateCommands /\ SameMid(last'.n) # {}) =>
       /\ DOMAIN pendingCommands' = DOMAIN pendingCommands \ {Oldest(SameMid(last'.n))}
       /\ \A id \in DOMAIN pendingCommands' : pendingCommands'[id] = pendingCommands[id]
       /\ Count(emitted', "commandSuccess") + Count(emitted', "commandFailed") = 1
       /\ \E i \in DOMAIN emitted' :
            /\ emitted'[i].name = (IF last'.op = "MID5" THEN "commandSuccess"
                                   ELSE "commandFailed")
            /\ emitted'[i].n1 = last'.n
            /\ emitted'[i].n2 = Oldest(SameMid(last'.n))]_vars

\* a MID 0005 resolved the oldest of three commands of one MID
C24_Witness ==
  /\ last.op = "MID5" /\ allowDuplicateCommands
  /\ SameMid(last.n) = {2, 3}
  /\ \E i \in DOMAIN emitted : emitted[i].name = "commandSuccess" /\ emitted[i].n2 = 1

---------------------------------------------------------------------------
(* C25: cycle start on the rising edge of tool_running *)

\* C25: a MID 0041 starts a cycle (emits tighteningCycleStarted) only when
\* tool.running was false, the frame reports it true, and no cycle is in
\* progress.
C25_StartOnRisingEdge ==
  [][(last'.op = "MID41" /\ "tighteningCycleStarted" \in Names(emitted')) =>
       (~toolRunning /\ toolRunning' /\ ~inProgress)]_vars

---------------------------------------------------------------------------
(* C26: tighteningIncomplete *)

\* C26: a tighteningIncomplete event reports expected = tool.spindle_count
\* and a received count strictly below it, and leaves no cycle in progress
\* and no pending result.
C26_IncompleteCounts ==
  \A i \in DOMAIN emitted :
     emitted[i].name = "tighteningIncomplete" =>
       /\ emitted[i].n2 < emitted[i].n1
       /\ emitted[i].n1 = spindleCount
       /\ ~inProgress /\ pendingSpindles = <<>>

---------------------------------------------------------------------------
(* C27: the ok flag of a Rev 4 result *)

\* C27: at revision 4 a MID 0061 result is reported ok, and a cycle
\* overall_ok, only if the overall, torque and angle status characters of the
\* frame are all '1'.
C27_Rev4OkNeedsAllStatuses ==
  [][(last'.op = "MID61" /\ revision = 4) =>
       \A i \in DOMAIN emitted' :
          \/ /\ emitted'[i].name = "spindleResult"
             /\ emitted'[i].n2 = 1
          \/ /\ emitted'[i].name = "tighteningCycleCompleted"
             /\ emitted'[i].n1 = 1
          => last'.st = <<"1", "1", "1">>]_vars

---------------------------------------------------------------------------
(* C28: the keep-alive *)

\* C28: a tick of the 1-second heartbeat interval writes a MID 9999 if and
\* only if the client is connected and at least 7 s have passed since the
\* last frame was sent or received (last.m at a tick); what it writes
\* carries the no-ACK flag and adds no pending command; nothing but such a
\* tick writes a MID 9999, so none is written between a socket close and
\* the next connection.
C28_Heartbeat ==
  [][/\ last'.op = "tick" =>
          /\ (9999 \in Mids(written')) <=> (connected /\ last'.m >= 7 * 1000)
          /\ \A i \in DOMAIN written' : written'[i].mid = 9999 /\ written'[i].noAck
          /\ pendingCommands' = pendingCommands
     /\ 9999 \in Mids(written') => (last'.op = "tick" /\ connected)]_vars

---------------------------------------------------------------------------
(* C29: the alarm list *)

\* C29: a MID 0070 appends one record to controller.alarms and sets
\* error_active; a MID 0076 with alarm_status false empties the list and
\* clears error_active; every other step, a MID 0076 with alarm_status true
\* included, leaves the list as it is.
C29_AlarmList ==
  [][/\ last'.op = "MID70" => (alarms' = Append(alarms, last'.n) /\ errorActive')
     /\ (last'.op = "MID76" /\ last'.n = 0) => (alarms' = <<>> /\ ~errorActive')
     /\ ~(last'.op = "MID70" \/ (last'.op = "MID76" /\ last'.n = 0)) =>
          alarms' = alarms]_vars

\* a MID 0076 with alarm_status true that found two alarms and left them
C29_Witness ==
  /\ last.op = "MID76" /\ last.n = 1
  /\ Len(alarms) = 2

---------------------------------------------------------------------------
(* C30: batch progress on cycle completion *)

\* the position of the first event called name in evs, 0 if there is none
IndexOf(evs, name) ==
  IF name \in Names(evs)
  THEN CHOOSE i \in DOMAIN evs :
         evs[i].name = name /\ \A j \in DOMAIN evs : evs[j].name = name => i <= j
  ELSE 0

\* the step is a result that makes the spindles reported reach the count
AllReported ==
  /\ last'.op \in {"MID61", "MID65"}
  /\ Cardinality(DOMAIN pendingSpindles \cup {last'.n}) >= spindleCount'

\* the ok flags collected when the result of this step is added
Collected ==
  [k \in DOMAIN pendingSpindles \cup {last'.n} |->
     IF k = last'.n THEN emitted'[IndexOf(emitted', "spindleResult")].n2 = 1
     ELSE pendingSpindles[k]]

\* C30: a result that completes the cycle while a batch is active and not
\* complete raises batch.counter by one and emits batchProgress; if the
\* counter has then reached batch.size the batch becomes complete and
\* inactive and batchCompleted is emitted before tighteningCycleCompleted;
\* every other result leaves the batch as it is; overall_ok is the
\* conjunction of the ok flags collected.
C30_BatchProgress ==
  [][last'.op \in {"MID61", "MID65"} =>
       /\ (AllReported /\ batch.active /\ ~batch.complete) =>
            /\ batch'.counter = batch.counter + 1
            /\ Count(emitted', "batchProgress") = 1
            /\ IF batch'.counter >= Val(batch.size)
               THEN /\ batch'.complete /\ ~batch'.active
                    /\ Count(emitted', "batchCompleted") = 1
                    /\ IndexOf(emitted', "batchCompleted")
                         < IndexOf(emitted', "tighteningCycleCompleted")
               ELSE /\ batch' = [batch EXCEPT !.counter = @ + 1]
                    /\ "batchCompleted" \notin Names(emitted')
       /\ ~(AllReported /\ batch.active /\ ~batch.complete) =>
            /\ batch' = batch
            /\ "batchProgress" \notin Names(emitted')
            /\ "batchCompleted" \notin Names(emitted')
       /\ AllReported =>
            /\ Count(emitted', "tighteningCycleCompleted") = 1
            /\ emitted'[IndexOf(emitted', "tighteningCycleCompleted")].n1
                 = B2N(\A k \in DOMAIN Collected : Collected[k])]_vars

---------------------------------------------------------------------------
(* C31: the decoder and the chunking of the stream                         *)

MaxLead == 2

\* what may precede the frames: noise bytes and the two bytes of U+00E9
LeadBytes == {"x", "C3", "A9"}
Lead == UNION {[1..n -> LeadBytes] : n \in 0..MaxLead}

InitChunks == client(FALSE, Null, FALSE, TRUE)

\* the peer writes a lead and two frames; the socket delivers them in chunks
\* of any size
NextChunks ==
  \/ Connect
  \/ OnConnect
  \/ \E g \in Lead, f1 \in ValidFrames, f2 \in ValidFrames : PeerSends(g \o f1 \o f2)
  \/ \E k \in 1..(MaxLead + 40) : OnData(k)

SpecChunks == InitChunks /\ [][NextChunks]_vars

\* _onData applied once to the bytes delivered so far, as a single chunk
Whole == decodeLoop([buf |-> stripNul(toString(SubSeq(wire, 1, fed))),
                     ev |-> <<>>, frames |-> <<>>])

\* C31: whatever the chunks the bytes arrived in, the frames decoded and the
\* frameErrors emitted so far are the ones a single chunk holding the same
\* bytes gives
C31_ChunkingIsInvisible ==
  wire # <<>> =>
    /\ decoded = Whole.frames
    /\ frameErrors = Count(Whole.ev, "frameError")

\* the same for streams where no U+00E9 is cut by a chunk boundary
AsciiChunkingIsInvisible ==
  (wire # <<>> /\ \A i \in DOMAIN wire : wire[i] \notin {"C3", "A9"}) =>
    /\ decoded = Whole.frames
    /\ frameErrors = Count(Whole.ev, "frameError")
    /\ buffer = Whole.buf

---------------------------------------------------------------------------
(* C32: the link layer and the connection                                  *)

\* C32: whenever the link layer is ready, the connection is up
C32_LinkReadyImpliesConnected == linkLayerReady => connected

---------------------------------------------------------------------------
(* C33: the alarm list and the alarm interlock                             *)

\* C33: while the alarm list is not empty, errorActive is set
C33_AlarmsImplyErrorActive == alarms # <<>> => errorActive

---------------------------------------------------------------------------
(* C34: tighteningCycleCompleted and the cycle it ends                     *)

\* C34: tighteningCycleCompleted is emitted only by a step that begins with a
\* cycle in progress: a result received while no cycle is in progress never
\* completes a cycle
C34_CompletedOnlyInCycle ==
  []["tighteningCycleCompleted" \in Names(emitted') => inProgress]_vars

---------------------------------------------------------------------------
(* C35: batch.pendingReset and the pending MID 0020                        *)

\* C35: pendingReset is set only while a MID 0020 command is in the table of
\* pending commands
C35_PendingResetHasCommand ==
  batch.pendingReset => hasPending(pendingCommands, 20)

---------------------------------------------------------------------------
(* C36: calls rejected synchronously                                       *)

\* the errors an operator call is rejected with: an InterlockError code, the
\* CommandError of a MID that is already pending, the Error of a VIN that is
\* too long
Rejections ==
  {InterlockCodes[i] : i \in DOMAIN InterlockCodes} \cup {"CommandError", "Error"}

\* C36: a call that is rejected synchronously leaves the state and the table
\* of pending commands as they were
C36_RejectedCallChangesNothing ==
  [][thrown' \in Rejections =>
       UNCHANGED <<connected, linkLayerReady, reconnecting, reconnectAttempts,
                   protoVars, ctrlVars, toolVars, spinVars, prodVars, jobActive,
                   batch, inProgress, pendingSpindles, pendingCommands>>]_vars

---------------------------------------------------------------------------
(* C37: the VIN while it is locked                                         *)

\* C37: as long as the VIN stays locked, product.vin does not change
C37_LockedVinKeepsValue ==
  [][(vinLocked /\ vinLocked') => vin' = vin]_vars

============================================================================
